---- MODULE Spec2Model ----
(***************************************************************************)
(* Model of the configstore repository engine: the txn.lock file lock      *)
(* (server/lib/lock.js, both the promise-chain and the async version),     *)
(* GitRepo.updateBranchFiles and GitRepo.getFile (server/lib/gitrepo.js),  *)
(* and the Git HTTP receive-pack path that moves refs without the lock     *)
(* (server/lib/githttp.js).                                                *)
(***************************************************************************)
EXTENDS Integers, Sequences, FiniteSets, TLC

\* ---------------------------------------------------------------- bounds
MaxCommits == 2
\* events a change stream may hold
MaxEvents == 3
\* pkt-lines in a stream fed to the parser
MaxPackets == 3

\* ------------------------------------------------------------- universes
Procs == {"w1", "w2"}
\* branch names: master, and the branch env/<E> of the one environment
\* the REST surface writes
Envs == {"dev"}
Branches == {"master"} \cup {"env/" \o e : e \in Envs}
\* file paths: a plain file, and a project.json in a directory (the one
\* file name the validator has a schema for)
Paths == {"a", "d/project.json"}
\* file contents: 1 is a blob of 1 MiB + 1 bytes, 2 a short text
Contents == {1, 2}
Absent == 0
Trees == [Paths -> {Absent} \cup Contents]
EmptyTree == [q \in Paths |-> Absent]
FileMaps == UNION {[S -> Contents] : S \in SUBSET Paths}
LockImpls == {"chain", "async"}
\* the tree a pushed commit carries: every path, with the short text
PushTrees == {[q \in Paths |-> 2]}

\* Git HTTP requests in flight, and the repositories their URL may name:
\* the one repository of this model and a name no directory exists for
Reqs == {"r1", "r2"}
Repos == {"test-repo.git", "gone.git"}
SERVICES == {"git-upload-pack", "git-receive-pack"}
ServiceValues == SERVICES \cup {"", "git-upload-archive"}
ContentTypes ==
  {"application/x-git-upload-pack-request",
   "application/x-git-receive-pack-request", "text/plain"}
\* first two octets of the remote address
Addresses ==
  {<<10, 1>>, <<172, 31>>, <<172, 32>>, <<192, 168>>, <<127, 0>>, <<8, 8>>}
\* Authorization header: none, or Basic with a username and a password
NoCreds == [scheme |-> "none", username |-> "", password |-> ""]
Basic(u, pw) == [scheme |-> "Basic", username |-> u, password |-> pw]
Credentials ==
  {NoCreds, Basic("git", "k1"), Basic("git", "k2"), Basic("bob", "k1")}
\* GET /:repo/info/refs?service=..., POST /:repo/:service (the route
\* parameter is never empty)
HttpRequests ==
  {[method |-> "GET", repo |-> rp, service |-> sv, contentType |-> "",
    addr |-> ad, creds |-> cr] :
      rp \in Repos, sv \in ServiceValues, ad \in Addresses, cr \in Credentials}
  \cup
  {[method |-> "POST", repo |-> rp, service |-> sv, contentType |-> ct,
    addr |-> ad, creds |-> cr] :
      rp \in Repos, sv \in ServiceValues \ {""}, ct \in ContentTypes,
      ad \in Addresses, cr \in Credentials}
NoReq == [method |-> "", repo |-> "", service |-> "", contentType |-> "",
          addr |-> <<0, 0>>, creds |-> NoCreds]
NoUpdate == [ref |-> "", before |-> 0, after |-> 0]

\* producers the REST surface is asked about: the one whose repository this
\* model holds, and one that has never been created
TheProducer == "test-repo"
ProducerIds == {TheProducer, "gone"}
\* change-stream subscribers
Subs == {"s1"}
NoRest == [op |-> "", env |-> "", files |-> <<>>,
           rev |-> [form |-> "none", id |-> 0], bodyId |-> ""]
NoResp == [status |-> 0, value |-> ""]

\* --------------------------------------------------------------- state
VARIABLES
  lockImpl,      \* which lock module is loaded: lock.js or its async rewrite
  commits,       \* object store: sequence of commits, id = position
  refs,          \* refs/heads/<b>: commit id, 0 when the branch is missing
  head,          \* the branch HEAD symbolically points at
  wt,            \* working tree files
  index,         \* .git/index on disk
  lockHolder,    \* process whose descriptor holds the flock on txn.lock, "" if none
  lockFd,        \* per call: descriptor on txn.lock is open
  pc,            \* per call: position in lock()/updateBranchFiles
  call,          \* per call: branchName, parentRevision, files
  initialCommit, \* per call: local initialCommit
  headCommit,    \* per call: local headCommit (0 = null)
  parents,       \* per call: local parents
  fnResult,      \* per call: how the body fn settled
  result,        \* per call: how the promise returned by updateBranchFiles settled
  acquireErr,    \* history: error raised by open/flock of the current call
  created,       \* history: commit created by the current call, 0 if none
  overlapped,    \* history: calls that were in flight together with this one
  disturbed,     \* history: another write moved the call's branch after its checkout
  authOnPrivateNetworks, \* getRouter argument
  accessKey,     \* lunchbadger.accesskey in the repository config, "" if unset
  httpReq,       \* per Git HTTP request: method, repo, service, headers, address
  httpStage,     \* per Git HTTP request: position in router, handler and child
  httpStatus,    \* per Git HTTP request: response status, 0 while none is set
  childOut,      \* per Git HTTP request: packets the child wrote to stdout
  teeSeen,       \* per Git HTTP request: packets the tee has transformed
  emitted,       \* per Git HTTP request: change lists of the 'push' events emitted
  spawned,       \* history: a Git helper process was spawned for the request
  exitCode,      \* history: exit status of the child, -1 while it runs
  accepted,      \* history: the ref update the child applied, if any
  repoDirs,      \* producers whose repository directory exists under the root
  restReq,       \* per REST client: the request it is serving
  restStage,     \* per REST client: position in the API method
  restSeen,      \* per REST client: what repoExists answered last
  restResp,      \* per REST client: status and value of the response
  configWrite,   \* keys of the setConfigVariables writes not yet done
  did,           \* history: what the current request of a REST client has run
  subProducer,   \* per subscriber: producerId of its change-stream request
  subStage,      \* per subscriber: position in repoEventStream
  subClosed,     \* per subscriber: the request emitted 'close' (changes = null)
  subQueue,      \* per subscriber: events written to its PassThrough
  listening,     \* per subscriber: its handler is a 'push' listener
  keepAlive,     \* per subscriber: its interval timer is running
  heard,         \* history: pushes of its repository emitted while subscribed
  closedAt,      \* history: length of the queue when the request closed, -1 before
  feedIn,        \* PacketParser: characters of the stream not yet written to the tee
  stream,        \* history: the whole stream of the child's stdout
  parserBuffer,  \* PacketParser: this.buffer
  parserOk,      \* PacketParser: this.ok
  events,        \* PacketParser: 'packet' and 'end' events emitted so far
  piped,         \* GitServiceTee: characters passed on to the response
  reportIn,      \* packets of a receive-pack report handed to the tee
  pushOut        \* outcome of the receive-pack callback on that report

repoVars == <<commits, refs, head, wt, index>>
lockVars == <<lockHolder, lockFd>>
txnVars == <<initialCommit, headCommit, parents>>
histVars == <<acquireErr, created, overlapped, disturbed>>
httpVars == <<authOnPrivateNetworks, accessKey, httpReq, httpStage, httpStatus,
              childOut, teeSeen, emitted, spawned, exitCode, accepted>>
apiVars == <<repoDirs, restReq, restStage, restSeen, restResp, configWrite,
             did>>
busVars == <<subProducer, subStage, subClosed, subQueue, listening, keepAlive,
             heard, closedAt>>
pktVars == <<feedIn, stream, parserBuffer, parserOk, events, piped, reportIn,
             pushOut>>
vars == <<lockImpl, commits, refs, head, wt, index, lockHolder, lockFd, pc,
          call, initialCommit, headCommit, parents, fnResult, result,
          acquireErr, created, overlapped, disturbed,
          authOnPrivateNetworks, accessKey, httpReq, httpStage, httpStatus,
          childOut, teeSeen, emitted, spawned, exitCode, accepted,
          repoDirs, restReq, restStage, restSeen, restResp, configWrite, did,
          subProducer, subStage, subClosed, subQueue, listening, keepAlive,
          heard, closedAt,
          feedIn, stream, parserBuffer, parserOk, events, piped, reportIn,
          pushOut>>

\* ---------------------------------------------------- revision strings
\* A revision string is kept as its form and the commit it spells:
\*   "hex"     the 40 lower-case hex digits of commit id (what tostrS gives)
\*   "HEX"     the same digits in upper case
\*   "missing" 40 hex digits that name no object
\*   "garbage" a string git_oid_fromstr cannot parse (not hex, or not 40 long)
\*   "none"    undefined / null / ''
NoRev == [form |-> "none", id |-> 0]
MissingRev == [form |-> "missing", id |-> 0]
GarbageRev == [form |-> "garbage", id |-> 0]
tostrS(i) == [form |-> "hex", id |-> i]
RevStrings(n) ==
  {NoRev, MissingRev, GarbageRev}
    \cup {[form |-> f, id |-> i] : f \in {"hex", "HEX"}, i \in 1..n}

NoCall == [branchName |-> "master", parentRevision |-> NoRev,
           files |-> [q \in {} |-> 0]]
NoFn == [status |-> "none", value |-> NoRev, error |-> ""]
Returned(v) == [status |-> "returned", value |-> v, error |-> ""]
Threw(e) == [status |-> "threw", value |-> NoRev, error |-> e]
Pending == [status |-> "pending", value |-> NoRev, error |-> ""]
Resolved(v) == [status |-> "resolved", value |-> v, error |-> ""]
Rejected(e) == [status |-> "rejected", value |-> NoRev, error |-> e]

\* ------------------------------------------------------ git primitives
HeadId == refs[head]
TreeOf(c) == IF c = 0 THEN EmptyTree ELSE commits[c].tree
HeadTree == TreeOf(HeadId)

\* Commit.lookupPrefix(repo, parentRevision, parentRevision.length)
lookupPrefix(rev) ==
  CASE rev.form \in {"hex", "HEX"} -> [ok |-> TRUE, id |-> rev.id, error |-> ""]
    [] rev.form = "missing" -> [ok |-> FALSE, id |-> 0, error |-> "GitError"]
    [] OTHER -> [ok |-> FALSE, id |-> 0, error |-> "Unable to parse OID"]

\* path.dirname of a working tree path
Dirname(q) == IF q = "d/project.json" THEN "d" ELSE "."
\* a directory of the working tree exists while a file lives under it
DirExists(d) == d = "." \/ \E q \in Paths : Dirname(q) = d /\ wt[q] # Absent

\* repo.getStatus(): paths whose HEAD, index and working tree entries differ
getStatus(w) == {q \in Paths : HeadTree[q] # index[q] \/ index[q] # w[q]}

\* mutant: nothing is staged
addAll_stagesNothing(idx, w) == idx

\* index.addAll(): every working tree file is added or updated
addAll(idx, w) == [q \in Paths |-> IF w[q] # Absent THEN w[q] ELSE idx[q]]

\* blob.rawsize()
rawsize(c) == IF c = 1 THEN 1024 * 1024 + 1 ELSE c

\* calls between their start and their settlement
InFlight == {p \in Procs : pc[p] \notin {"idle", "done"}}
Room == Len(commits) + Cardinality(InFlight) < MaxCommits


\* ------------------------------------------------------------------ Init
\* a repository fresh from createRepo, with no call in progress
RepoCreated ==
  /\ commits = <<>>
  /\ refs = [b \in Branches |-> 0]
  /\ head = "master"
  /\ wt = EmptyTree
  /\ index = EmptyTree
  /\ lockHolder = ""
  /\ lockFd = [p \in Procs |-> FALSE]
  /\ pc = [p \in Procs |-> "idle"]
  /\ call = [p \in Procs |-> NoCall]
  /\ initialCommit = [p \in Procs |-> FALSE]
  /\ headCommit = [p \in Procs |-> 0]
  /\ parents = [p \in Procs |-> <<>>]
  /\ fnResult = [p \in Procs |-> NoFn]
  /\ result = [p \in Procs |-> Pending]
  /\ acquireErr = [p \in Procs |-> ""]
  /\ created = [p \in Procs |-> 0]
  /\ overlapped = [p \in Procs |-> {}]
  /\ disturbed = [p \in Procs |-> FALSE]

\* the Git HTTP server with no request in flight
HttpQuiet ==
  /\ httpReq = [r \in Reqs |-> NoReq]
  /\ httpStage = [r \in Reqs |-> "idle"]
  /\ httpStatus = [r \in Reqs |-> 0]
  /\ childOut = [r \in Reqs |-> <<>>]
  /\ teeSeen = [r \in Reqs |-> 0]
  /\ emitted = [r \in Reqs |-> <<>>]
  /\ spawned = [r \in Reqs |-> FALSE]
  /\ exitCode = [r \in Reqs |-> -1]
  /\ accepted = [r \in Reqs |-> NoUpdate]

\* the REST surface with no request in progress
RestQuiet ==
  /\ restReq = [p \in Procs |-> NoRest]
  /\ restStage = [p \in Procs |-> "idle"]
  /\ restSeen = [p \in Procs |-> FALSE]
  /\ restResp = [p \in Procs |-> NoResp]
  /\ configWrite = {}
  /\ did = [p \in Procs |-> {}]

\* no change-stream subscription
BusQuiet ==
  /\ subProducer = [s \in Subs |-> ""]
  /\ subStage = [s \in Subs |-> "idle"]
  /\ subClosed = [s \in Subs |-> FALSE]
  /\ subQueue = [s \in Subs |-> <<>>]
  /\ listening = [s \in Subs |-> FALSE]
  /\ keepAlive = [s \in Subs |-> FALSE]
  /\ heard = [s \in Subs |-> <<>>]
  /\ closedAt = [s \in Subs |-> -1]

\* no stream and no report at the tee
NoPush == [ran |-> FALSE, threw |-> FALSE, changes |-> <<>>]
TeeQuiet ==
  /\ feedIn = <<>>
  /\ stream = <<>>
  /\ parserBuffer = <<>>
  /\ parserOk = TRUE
  /\ events = <<>>
  /\ piped = <<>>
  /\ reportIn = <<>>
  /\ pushOut = NoPush

Init ==
  /\ lockImpl \in LockImpls
  /\ RepoCreated
  /\ authOnPrivateNetworks = TRUE
  /\ accessKey = "k1"
  /\ HttpQuiet
  /\ repoDirs = {TheProducer}
  /\ RestQuiet
  /\ BusQuiet
  /\ TeeQuiet

\* ------------------------------------------------- updateBranchFiles call
\* A caller starts updateBranchFiles(branchName, parentRevision, files); the
\* revision it passes is any string, the hashes among them of known commits.
startCall(p, b, rev, f) ==
  /\ pc[p] = "idle"
  /\ Room
  /\ pc' = [pc EXCEPT ![p] = "acquire"]
  /\ call' = [call EXCEPT ![p] =
                [branchName |-> b, parentRevision |-> rev, files |-> f]]
  /\ overlapped' = [q \in Procs |->
                      IF q = p THEN InFlight
                      ELSE IF q \in InFlight THEN overlapped[q] \cup {p}
                      ELSE overlapped[q]]
  /\ UNCHANGED <<lockImpl, repoVars, lockVars, txnVars, fnResult, result,
                 acquireErr, created, disturbed>>

Call(p, b, rev, f) ==
  /\ startCall(p, b, rev, f)
  /\ UNCHANGED <<httpVars, apiVars, busVars, pktVars>>

\* ------------------------------------------------------------- lock()
\* What the promise chain of lock.js rejects with when a stage before fn
\* failed with err: the last catch calls unlock(), which returns undefined
\* while lockFd is null, and undefined.then raises a TypeError.
chainCatch(fdSet, err) == IF fdSet THEN err ELSE "TypeError"

\* What lock() rejects with when acquiring failed with err.
acquireFailure(impl, fdSet, err) ==
  IF impl = "chain" THEN chainCatch(fdSet, err) ELSE err

\* mutant: EAGAIN is passed on as it is
flockError_raw(code) == code

\* The error the catch after open/flock throws for the error code of flock.
flockError(code) == IF code = "EAGAIN" THEN "LockedError" ELSE code

\* mutant: flock never reports the lock held
flockCode_neverHeld(holder) == "ok"

\* flock(fd, 'exnb') on a file another open descriptor has locked
flockCode(holder) == IF holder # "" THEN "EAGAIN" ELSE "ok"

\* The descriptor left open after a failed flock: the chain closes it in
\* unlock(), the async version returns without closing it.
fdAfterFailure(impl) == impl = "async"

\* fs.openAsync(lockPath, 'w'), fs.flockAsync(fd, 'exnb') and the catch that
\* follows them. Opening touches nothing but the caller's own descriptor.
LockAcquire(p) ==
  /\ pc[p] = "acquire"
  /\ \/ /\ acquireErr' = [acquireErr EXCEPT ![p] = "EACCES"]
        /\ result' = [result EXCEPT ![p] =
                        Rejected(acquireFailure(lockImpl, FALSE, "EACCES"))]
        /\ pc' = [pc EXCEPT ![p] = "done"]
        /\ UNCHANGED lockVars
     \/ \E code \in {flockCode(lockHolder), "ENOLCK"} :
          IF code = "ok"
          THEN /\ lockHolder' = p
               /\ lockFd' = [lockFd EXCEPT ![p] = TRUE]
               /\ pc' = [pc EXCEPT ![p] = "checkout"]
               /\ UNCHANGED <<result, acquireErr>>
          ELSE /\ acquireErr' = [acquireErr EXCEPT ![p] = code]
               /\ result' = [result EXCEPT ![p] =
                    Rejected(acquireFailure(lockImpl, TRUE, flockError(code)))]
               /\ lockFd' = [lockFd EXCEPT ![p] = fdAfterFailure(lockImpl)]
               /\ pc' = [pc EXCEPT ![p] = "done"]
               /\ UNCHANGED lockHolder
  /\ UNCHANGED <<lockImpl, repoVars, call, txnVars, fnResult,
                 created, overlapped, disturbed>>
  /\ UNCHANGED <<httpVars, apiVars, busVars, pktVars>>

\* mutant: a failure of the body is swallowed
settle_swallowsError(impl, fnres) == Resolved(NoRev)

\* What lock() settles with once fn has settled: the chain resolves with the
\* result of unlock (close gives undefined), the async version with fn's.
settle(impl, fnres) ==
  IF fnres.status = "threw" THEN Rejected(fnres.error)
  ELSE IF impl = "chain" THEN Resolved(NoRev)
  ELSE Resolved(fnres.value)

\* mutant: the descriptor is never closed
unlock_keepsLock(holder, p) == holder

\* closing the descriptor of p drops the flock it holds
unlock(holder, p) == IF holder = p THEN "" ELSE holder

\* unlock() / finally: close the descriptor, which drops the flock
LockRelease(p) ==
  /\ pc[p] = "unlock"
  /\ lockFd' = [lockFd EXCEPT ![p] = FALSE]
  /\ lockHolder' = unlock(lockHolder, p)
  /\ result' = [result EXCEPT ![p] = settle(lockImpl, fnResult[p])]
  /\ pc' = [pc EXCEPT ![p] = "done"]
  /\ UNCHANGED <<lockImpl, repoVars, call, txnVars, fnResult, histVars>>
  /\ UNCHANGED <<httpVars, apiVars, busVars, pktVars>>

\* the body fn throws err: the transaction is left where it stands
Fail(p, err) ==
  /\ fnResult' = [fnResult EXCEPT ![p] = Threw(err)]
  /\ pc' = [pc EXCEPT ![p] = "unlock"]

\* ---------------------------------------------- updateBranchFiles body
\* checkout with the SAFE | RECREATE_MISSING strategy (the default of
\* checkoutBranch): a path the target changes and the working tree holds in
\* a modified state is a conflict; a path missing from the working tree is
\* written again; a modified path the target leaves alone is kept
checkoutConflicts(target) ==
  {q \in Paths : /\ target[q] # HeadTree[q]
                 /\ wt[q] # HeadTree[q]
                 /\ wt[q] # Absent}
checkoutTree(target, old) ==
  [q \in Paths |-> IF target[q] # HeadTree[q] \/ wt[q] = Absent
                   THEN target[q] ELSE old[q]]

\* mutant: the two one-sided cases raise each other's error
parentCheck_swappedCases(rev, hc) ==
  LET found == lookupPrefix(rev) IN
  IF rev.form # "none" /\ hc # 0
  THEN IF ~found.ok
       THEN [ok |-> FALSE, parents |-> <<>>,
             error |-> IF found.error = "Unable to parse OID"
                       THEN "OptimisticConcurrencyError" ELSE found.error]
       ELSE IF hc # found.id
            THEN [ok |-> FALSE, parents |-> <<>>,
                  error |-> "OptimisticConcurrencyError"]
            ELSE [ok |-> TRUE, parents |-> <<found.id>>, error |-> ""]
  ELSE IF rev.form # "none" /\ hc = 0
  THEN [ok |-> FALSE, parents |-> <<>>, error |-> "OptimisticConcurrencyError"]
  ELSE IF rev.form = "none" /\ hc # 0
  THEN [ok |-> FALSE, parents |-> <<>>,
        error |-> "GitRepoError: Given parent revision is invalid"]
  ELSE [ok |-> TRUE, parents |-> <<>>, error |-> ""]

\* the check of parentRevision against headCommit
parentCheck(rev, hc) ==
  LET given == rev.form # "none"
      found == lookupPrefix(rev) IN
  IF given /\ hc # 0
  THEN IF ~found.ok
       THEN IF found.error = "Unable to parse OID"
            THEN [ok |-> FALSE, parents |-> <<>>,
                  error |-> "OptimisticConcurrencyError"]
            ELSE [ok |-> FALSE, parents |-> <<>>, error |-> found.error]
       ELSE IF hc # found.id
            THEN [ok |-> FALSE, parents |-> <<>>,
                  error |-> "OptimisticConcurrencyError"]
            ELSE [ok |-> TRUE, parents |-> <<found.id>>, error |-> ""]
  ELSE IF given /\ hc = 0
  THEN [ok |-> FALSE, parents |-> <<>>,
        error |-> "GitRepoError: Given parent revision is invalid"]
  ELSE IF ~given /\ hc # 0
  THEN [ok |-> FALSE, parents |-> <<>>, error |-> "OptimisticConcurrencyError"]
  ELSE [ok |-> TRUE, parents |-> <<>>, error |-> ""]

\* Reference.lookup(HEAD).resolve(), then symbolicSetTarget or checkoutBranch
\* and getHeadCommit, then the check of parentRevision, which reads nothing
\* but the call's locals and the commit it looks up
BodyCheckout(p) ==
  LET b == call[p].branchName
      target == TreeOf(refs[b])
      hc == IF HeadId = 0 THEN 0 ELSE refs[b]
      chk == parentCheck(call[p].parentRevision, hc) IN
  /\ pc[p] = "checkout"
  /\ IF HeadId # 0 /\ refs[b] = 0
     THEN /\ Fail(p, "GitRepoError: Invalid branch")
          /\ UNCHANGED <<head, wt, index, txnVars>>
     ELSE IF HeadId # 0 /\ checkoutConflicts(target) # {}
     THEN /\ Fail(p, "GitError")
          /\ UNCHANGED <<head, wt, index, txnVars>>
     ELSE /\ head' = b
          /\ wt' = IF HeadId = 0 THEN wt ELSE checkoutTree(target, wt)
          /\ index' = IF HeadId = 0 THEN index ELSE checkoutTree(target, index)
          /\ initialCommit' = [initialCommit EXCEPT ![p] = HeadId = 0]
          /\ headCommit' = [headCommit EXCEPT ![p] = hc]
          /\ IF chk.ok
             THEN /\ parents' = [parents EXCEPT ![p] = chk.parents]
                  /\ pc' = [pc EXCEPT ![p] = "write"]
                  /\ UNCHANGED fnResult
             ELSE /\ Fail(p, chk.error)
                  /\ UNCHANGED parents
  /\ UNCHANGED <<lockImpl, commits, refs, lockVars, call, result, histVars>>
  /\ UNCHANGED <<httpVars, apiVars, busVars, pktVars>>

\* fs.writeFileAsync for every file of the map: a write whose directory is
\* missing fails with ENOENT, the other writes still happen
unwritable(f) == {q \in DOMAIN f : ~DirExists(Dirname(q))}
writeFiles(f, w) ==
  [q \in Paths |-> IF q \in DOMAIN f \ unwritable(f) THEN f[q] ELSE w[q]]

BodyWrite(p) ==
  LET f == call[p].files IN
  /\ pc[p] = "write"
  /\ wt' = writeFiles(f, wt)
  /\ IF unwritable(f) = {}
     THEN /\ pc' = [pc EXCEPT ![p] = "commit"]
          /\ UNCHANGED fnResult
     ELSE Fail(p, "ENOENT")
  /\ UNCHANGED <<lockImpl, commits, refs, head, index, lockVars, call,
                 txnVars, result, histVars>>
  /\ UNCHANGED <<httpVars, apiVars, busVars, pktVars>>

\* mutant: the tip of the ref is not compared with the parents
tipIsFirstParent_unchecked(tip, ps) == TRUE

\* git_commit_create with update_ref: the ref's tip must be the first parent
tipIsFirstParent(tip, ps) == IF ps = <<>> THEN tip = 0 ELSE tip = ps[1]

\* mutant: master follows every commit
updateRef_alsoMaster(rs, hd, id) == [rs EXCEPT ![hd] = id, !["master"] = id]

\* createCommit('HEAD', ...): the branch HEAD points at is set to the commit
updateRef(rs, hd, id) == [rs EXCEPT ![hd] = id]

\* calls on branch br that have read its head commit: from there on the
\* transaction relies on the branch staying where it is
pastCheckout(br) ==
  {q \in Procs : /\ pc[q] \in {"write", "commit", "unlock", "done"}
                 /\ call[q].branchName = br}

\* getStatus, then refreshIndex, addAll, write, writeTree, createCommit on
\* HEAD and index.clear, or the given parentRevision when nothing changed
BodyCommit(p) ==
  LET newId == Len(commits) + 1
      idx == addAll(index, wt) IN
  /\ pc[p] = "commit"
  /\ IF initialCommit[p] \/ getStatus(wt) # {}
     THEN /\ index' = idx
          /\ IF tipIsFirstParent(HeadId, parents[p])
             THEN /\ commits' = Append(commits,
                                  [tree |-> idx, parents |-> parents[p]])
                  /\ refs' = updateRef(refs, head, newId)
                  /\ fnResult' = [fnResult EXCEPT ![p] = Returned(tostrS(newId))]
                  /\ pc' = [pc EXCEPT ![p] = "unlock"]
                  /\ created' = [created EXCEPT ![p] = newId]
                  /\ disturbed' = [q \in Procs |->
                        disturbed[q] \/ (q # p /\ q \in pastCheckout(head))]
             ELSE /\ Fail(p, "GitError")
                  /\ UNCHANGED <<commits, refs, created, disturbed>>
     ELSE /\ fnResult' = [fnResult EXCEPT ![p] =
                            Returned(call[p].parentRevision)]
          /\ pc' = [pc EXCEPT ![p] = "unlock"]
          /\ UNCHANGED <<commits, refs, index, created, disturbed>>
  /\ UNCHANGED <<lockImpl, head, wt, lockVars, call, txnVars, result,
                 acquireErr, overlapped>>
  /\ UNCHANGED <<httpVars, apiVars, busVars, pktVars>>

\* the caller has taken the settled promise; its locals are gone
Return(p) ==
  /\ pc[p] = "done"
  /\ pc' = [pc EXCEPT ![p] = "idle"]
  /\ call' = [call EXCEPT ![p] = NoCall]
  /\ lockFd' = [lockFd EXCEPT ![p] = FALSE]
  /\ initialCommit' = [initialCommit EXCEPT ![p] = FALSE]
  /\ headCommit' = [headCommit EXCEPT ![p] = 0]
  /\ parents' = [parents EXCEPT ![p] = <<>>]
  /\ fnResult' = [fnResult EXCEPT ![p] = NoFn]
  /\ result' = [result EXCEPT ![p] = Pending]
  /\ acquireErr' = [acquireErr EXCEPT ![p] = ""]
  /\ created' = [created EXCEPT ![p] = 0]
  /\ overlapped' = [overlapped EXCEPT ![p] = {}]
  /\ disturbed' = [disturbed EXCEPT ![p] = FALSE]
  /\ UNCHANGED <<lockImpl, repoVars, lockHolder>>
  /\ UNCHANGED <<httpVars, apiVars, busVars, pktVars>>

\* ------------------------------------------------------------- getFile
\* getBranchCommit, getTree, getEntry, getBlob with the 1 MiB limit
getFile(b, q) ==
  IF refs[b] = 0
  THEN [ok |-> FALSE, content |-> Absent, chksum |-> NoRev, error |-> "GitError"]
  ELSE IF TreeOf(refs[b])[q] = Absent
  THEN [ok |-> FALSE, content |-> Absent, chksum |-> NoRev,
        error |-> "FileNotFound"]
  ELSE IF rawsize(TreeOf(refs[b])[q]) > 1024 * 1024
  THEN [ok |-> FALSE, content |-> Absent, chksum |-> NoRev,
        error |-> "TypeError"]
  ELSE [ok |-> TRUE, content |-> TreeOf(refs[b])[q],
        chksum |-> tostrS(refs[b]), error |-> ""]

\* ---------------------------------------------------------- REST surface
\* updateEnvFiles writes the branch env/<envId>
envBranch(e) == "env/" \o e

\* the response of PATCH .../envs/<E>/files for a settled updateBranchFiles:
\* the revision is the ETag, OptimisticConcurrencyError becomes 412
patchResponse(res) ==
  IF res.status = "resolved" THEN [status |-> 204, etag |-> res.value]
  ELSE IF res.error = "OptimisticConcurrencyError"
  THEN [status |-> 412, etag |-> NoRev]
  ELSE [status |-> 500, etag |-> NoRev]

\* downloadFile: GET .../envs/<E>/files/<q> reads branch master whatever
\* E is; FileNotFound and InvalidBranchError become 404, any other error 500
downloadFile(e, q) ==
  LET r == getFile("master", q) IN
  IF r.ok THEN [status |-> 200, body |-> r.content, etag |-> r.chksum]
  ELSE IF r.error \in {"FileNotFound", "InvalidBranchError"}
  THEN [status |-> 404, body |-> Absent, etag |-> NoRev]
  ELSE [status |-> 500, body |-> Absent, etag |-> NoRev]

\* ------------------------------------------------- Git HTTP receive-pack
\* the working tree has nothing staged or modified (updateInstead refuses
\* to touch it otherwise)
worktreeClean == wt = index /\ index = HeadTree

\* a ref update by git-receive-pack, which runs without txn.lock: target is
\* the commit the branch is set to, update the commits after the push
receivePack(b, target, update) ==
  /\ b = head => worktreeClean
  /\ commits' = update
  /\ refs' = [refs EXCEPT ![b] = target]
  /\ wt' = IF b = head THEN update[target].tree ELSE wt
  /\ index' = IF b = head THEN update[target].tree ELSE index
  /\ disturbed' = [q \in Procs |-> disturbed[q] \/ q \in pastCheckout(b)]
  /\ UNCHANGED <<lockImpl, head, lockVars, pc, call, txnVars, fnResult,
                 result, acquireErr, created, overlapped>>
  /\ UNCHANGED <<apiVars, busVars, pktVars>>

\* a client pushes a new commit: a fast-forward of b, or b's first commit
GitPushCommit(b, t) ==
  /\ Room
  /\ receivePack(b, Len(commits) + 1,
       Append(commits, [tree |-> t,
                        parents |-> IF refs[b] = 0 THEN <<>> ELSE <<refs[b]>>]))
  /\ UNCHANGED <<httpVars, apiVars, busVars, pktVars>>

\* a client pushes a new branch b at a commit the repository already has
GitPushBranch(b, c) ==
  /\ refs[b] = 0
  /\ receivePack(b, c, commits)
  /\ UNCHANGED <<httpVars, apiVars, busVars, pktVars>>

\* ------------------------------------------------------ Git HTTP server
\* path.join(allRepoPath, req.params.repo) is a repository directory
RepoOnDisk(repo) == \E id \in repoDirs : repo = id \o ".git"

\* mutant: the whole of 172.0.0.0/8 and 192.0.0.0/8 counts as private
inPrivateRange_wholeOctet(addr) == addr[1] \in {10, 172, 192, 127}

\* IpStrategy with the four private ranges
inPrivateRange(addr) ==
  \/ addr[1] = 10
  \/ addr[1] = 172 /\ addr[2] \in 16..31
  \/ addr[1] = 192 /\ addr[2] = 168
  \/ addr[1] = 127

ipStrategy(addr) == IF inPrivateRange(addr) THEN "success" ELSE "fail"

\* checkGitAccessKey: done(null, false), done(null, true) or done(err)
checkGitAccessKey(repo, username, password) ==
  IF username # "git" THEN "fail"
  ELSE IF ~RepoOnDisk(repo) \/ accessKey = "" THEN "error"
  ELSE IF accessKey # password THEN "fail"
  ELSE "success"

\* BasicStrategy: a request without Authorization header is challenged
basicStrategy(rq) ==
  IF rq.creds.scheme = "none" THEN "fail"
  ELSE checkGitAccessKey(rq.repo, rq.creds.username, rq.creds.password)

strategies(authOnPrivate) ==
  IF authOnPrivate THEN <<"basic">> ELSE <<"ip", "basic">>

attempt(rq, name) ==
  IF name = "ip" THEN ipStrategy(rq.addr) ELSE basicStrategy(rq)

\* passport.authenticate(strategies): the strategies are tried in order, the
\* first success admits the request, an error ends the chain with next(err),
\* and the request is answered 401 when every strategy failed
RECURSIVE authenticate(_, _)
authenticate(rq, strats) ==
  IF strats = <<>> THEN "fail"
  ELSE LET o == attempt(rq, Head(strats)) IN
       IF o = "fail" THEN authenticate(rq, Tail(strats)) ELSE o

\* mutant: the Content-Type of a POST is not looked at
handlerStatus_anyContentType(rq) ==
  IF rq.service = "" \/ rq.service \notin SERVICES THEN 400 ELSE 0

\* checkService and the Content-Type check of serviceRpc: the status of the
\* early response, 0 when the handler goes on to runService
handlerStatus(rq) ==
  IF rq.service = "" THEN 400
  ELSE IF rq.service \notin SERVICES THEN 400
  ELSE IF /\ rq.method = "POST"
          /\ rq.contentType # "application/x-" \o rq.service \o "-request"
  THEN 415
  ELSE 0

\* serviceRpc sets saveOutput and the callback for git-receive-pack only
saveOutput(rq) == rq.method = "POST" /\ rq.service = "git-receive-pack"

\* what the child writes to stdout, as packets of tokens: the sideband byte
\* of the progress band, a line '<before> <after> <ref>' of the post-receive
\* hook, or other text
BandToken == [kind |-> "band", before |-> 0, after |-> 0, ns |-> "", name |-> ""]
TextToken == [kind |-> "text", before |-> 0, after |-> 0, ns |-> "", name |-> ""]
LineToken(u) ==
  [kind |-> "line", before |-> u.before, after |-> u.after,
   ns |-> "heads", name |-> u.ref]
\* an empty line: line.trim() has no length
BlankToken == [kind |-> "blank", before |-> 0, after |-> 0, ns |-> "", name |-> ""]
ReportPacket == <<TextToken>>
HookPacket(u) == <<BandToken, LineToken(u)>>

\* GitServiceTee: this.output is the data of every packet but the first
RECURSIVE teeOutput(_, _)
teeOutput(pkts, k) ==
  IF k <= 1 THEN <<>> ELSE teeOutput(pkts, k - 1) \o pkts[k]

\* one line of the output: split(' '), ref.match(/refs\/(head|tag)s\/(.*)/)
refType(ns) == IF ns = "heads" THEN "head" ELSE IF ns = "tags" THEN "tag" ELSE ""

\* the callback of serviceRpc: strip a leading \u0002, then one change per
\* line with a head or tag ref; a sideband byte further on sticks to the
\* 'before' of the line after it (-1: not a hash), and a line without a third
\* field makes ref.match throw
RECURSIVE parseLines(_, _)
parseLines(toks, dirty) ==
  IF toks = <<>> THEN [threw |-> FALSE, changes |-> <<>>]
  ELSE LET t == Head(toks) IN
       IF t.kind = "band"
       THEN IF Tail(toks) = <<>> THEN [threw |-> TRUE, changes |-> <<>>]
            ELSE parseLines(Tail(toks), TRUE)
       ELSE IF t.kind = "text" THEN [threw |-> TRUE, changes |-> <<>>]
       ELSE IF t.kind = "blank"
       THEN IF dirty THEN [threw |-> TRUE, changes |-> <<>>]
            ELSE parseLines(Tail(toks), FALSE)
       ELSE LET rest == parseLines(Tail(toks), FALSE)
                change == [type |-> refType(t.ns), ref |-> t.name,
                           before |-> IF dirty THEN -1 ELSE t.before,
                           after |-> t.after] IN
            IF refType(t.ns) = "" THEN rest
            ELSE [threw |-> rest.threw,
                  changes |-> IF rest.threw THEN <<>>
                              ELSE <<change>> \o rest.changes]

pushCallback(out) ==
  parseLines(IF out # <<>> /\ out[1].kind = "band" THEN Tail(out) ELSE out,
             FALSE)

restVars == <<lockImpl, lockVars, pc, call, txnVars, fnResult, result,
              acquireErr, created, overlapped>>
httpConfig == <<authOnPrivateNetworks, accessKey>>

\* a request arrives at the router
HttpRequest(r, rq) ==
  /\ httpStage[r] = "idle"
  /\ httpReq' = [httpReq EXCEPT ![r] = rq]
  /\ httpStage' = [httpStage EXCEPT ![r] = "auth"]
  /\ UNCHANGED <<apiVars, busVars, pktVars, repoVars, restVars, disturbed,
                 httpConfig, httpStatus,
                 childOut, teeSeen, emitted, spawned, exitCode, accepted>>

\* router.use('/:repo', passport.authenticate(strategies, {session: false}))
Authenticate(r) ==
  LET o == authenticate(httpReq[r], strategies(authOnPrivateNetworks)) IN
  /\ httpStage[r] = "auth"
  /\ IF o = "success"
     THEN /\ httpStage' = [httpStage EXCEPT ![r] = "handler"]
          /\ UNCHANGED httpStatus
     ELSE /\ httpStage' = [httpStage EXCEPT ![r] = "done"]
          /\ httpStatus' = [httpStatus EXCEPT ![r] =
                              IF o = "fail" THEN 401 ELSE 500]
  /\ UNCHANGED <<apiVars, busVars, pktVars, repoVars, restVars, disturbed,
                 httpConfig, httpReq,
                 childOut, teeSeen, emitted, spawned, exitCode, accepted>>

\* getInfoRefs / serviceRpc up to the spawn in runService
Handler(r) ==
  LET st == handlerStatus(httpReq[r]) IN
  /\ httpStage[r] = "handler"
  /\ IF st # 0
     THEN /\ httpStatus' = [httpStatus EXCEPT ![r] = st]
          /\ httpStage' = [httpStage EXCEPT ![r] = "done"]
          /\ UNCHANGED <<spawned, exitCode>>
     ELSE /\ httpStatus' = [httpStatus EXCEPT ![r] = 200]
          /\ httpStage' = [httpStage EXCEPT ![r] = "running"]
          /\ spawned' = [spawned EXCEPT ![r] = TRUE]
          /\ UNCHANGED exitCode
  /\ UNCHANGED <<apiVars, busVars, pktVars, repoVars, restVars, disturbed,
                 httpConfig, httpReq,
                 childOut, teeSeen, emitted, accepted>>

\* the child has written out and is about to exit with status code
childDone(r, out, code, update) ==
  /\ childOut' = [childOut EXCEPT ![r] = out]
  /\ exitCode' = [exitCode EXCEPT ![r] = code]
  /\ accepted' = [accepted EXCEPT ![r] = update]
  /\ httpStage' = [httpStage EXCEPT ![r] = "written"]
  /\ UNCHANGED <<httpConfig, httpReq, httpStatus, teeSeen, emitted, spawned>>

\* git-upload-pack, or the ref advertisement of either service: nothing of
\* the repository changes; the child fails when the directory is missing
ChildServe(r) ==
  /\ httpStage[r] = "running"
  /\ ~saveOutput(httpReq[r])
  /\ childDone(r, <<>>, IF RepoOnDisk(httpReq[r].repo) THEN 0 ELSE 128,
               NoUpdate)
  /\ UNCHANGED <<apiVars, busVars, pktVars, repoVars, restVars, disturbed>>

\* git-receive-pack accepts the push of a new commit to branch b: it moves
\* the ref, reports, and the post-receive hook echoes the update
ChildReceiveCommit(r, b, t) ==
  LET u == [ref |-> b, before |-> refs[b], after |-> Len(commits) + 1] IN
  /\ httpStage[r] = "running"
  /\ saveOutput(httpReq[r])
  /\ RepoOnDisk(httpReq[r].repo)
  /\ Room
  /\ receivePack(b, Len(commits) + 1,
       Append(commits, [tree |-> t,
                        parents |-> IF refs[b] = 0 THEN <<>> ELSE <<refs[b]>>]))
  /\ childDone(r, <<ReportPacket, HookPacket(u)>>, 0, u)

\* git-receive-pack refuses the update (stale old value, non-fast-forward,
\* working tree not clean): it reports, and the hook does not run
ChildReceiveReject(r) ==
  /\ httpStage[r] = "running"
  /\ saveOutput(httpReq[r])
  /\ RepoOnDisk(httpReq[r].repo)
  /\ childDone(r, <<ReportPacket>>, 0, NoUpdate)
  /\ UNCHANGED <<apiVars, busVars, pktVars, repoVars, restVars, disturbed>>

\* git-receive-pack dies before it has written anything: a missing
\* repository directory, or a broken request body
ChildReceiveFail(r, code) ==
  /\ httpStage[r] = "running"
  /\ saveOutput(httpReq[r])
  /\ ~RepoOnDisk(httpReq[r].repo) => code = 128
  /\ childDone(r, <<>>, code, NoUpdate)
  /\ UNCHANGED <<apiVars, busVars, pktVars, repoVars, restVars, disturbed>>

\* git.stdout.pipe(tee): the tee transforms the next packet
TeeTransform(r) ==
  /\ httpStage[r] = "written"
  /\ saveOutput(httpReq[r])
  /\ teeSeen[r] < Len(childOut[r])
  /\ teeSeen' = [teeSeen EXCEPT ![r] = teeSeen[r] + 1]
  /\ UNCHANGED <<apiVars, busVars, pktVars, repoVars, restVars, disturbed,
                 httpConfig, httpReq, httpStage,
                 httpStatus, childOut, emitted, spawned, exitCode, accepted>>

\* the events of a change stream; repo is not part of the written object, it
\* records which repository's push made the event
PushEvent(repo, changedRefs) ==
  [type |-> "push", changes |-> changedRefs, branches |-> <<>>, repo |-> repo]
KeepAliveEvent ==
  [type |-> "keepalive", changes |-> <<>>, branches |-> <<>>, repo |-> ""]
InitialEvent(branchRefs) ==
  [type |-> "initial", changes |-> <<>>, branches |-> branchRefs, repo |-> ""]

\* changes.write(event) on the PassThrough of a subscriber
write_atFront(queue, event) == <<event>> \o queue
write(queue, event) == Append(queue, event)

\* `${producerId}.git` === pushedRepo
pushedRepoMatches_any(producerId, pushedRepo) == TRUE
pushedRepoMatches(producerId, pushedRepo) == producerId \o ".git" = pushedRepo

\* the push listener a subscription registers on the Git server
handler(s, pushedRepo, changedRefs) ==
  IF ~subClosed[s] /\ pushedRepoMatches(subProducer[s], pushedRepo)
  THEN write(subQueue[s], PushEvent(pushedRepo, changedRefs))
  ELSE subQueue[s]

\* self.emit('push', repo, changes): every registered listener runs;
\* heard records the emission for the subscriptions registered on that
\* repository's directory
emitPush(pushedRepo, changedRefs) ==
  /\ subQueue' = [s \in Subs |->
                    IF listening[s] THEN handler(s, pushedRepo, changedRefs)
                    ELSE subQueue[s]]
  /\ heard' = [s \in Subs |->
                 IF listening[s] /\ subProducer[s] \o ".git" = pushedRepo
                 THEN Append(heard[s], changedRefs) ELSE heard[s]]

\* git.on('exit'): the tee is ended and the callback runs on what the tee
\* has gathered by then; the exit status is not looked at
ChildExit(r) ==
  LET cb == pushCallback(teeOutput(childOut[r], teeSeen[r])) IN
  /\ httpStage[r] = "written"
  /\ httpStage' = [httpStage EXCEPT ![r] = "done"]
  /\ IF saveOutput(httpReq[r]) /\ ~cb.threw
     THEN /\ emitted' = [emitted EXCEPT ![r] = Append(emitted[r], cb.changes)]
          /\ emitPush(httpReq[r].repo, cb.changes)
     ELSE UNCHANGED <<emitted, subQueue, heard>>
  /\ UNCHANGED <<apiVars, pktVars, subProducer, subStage, subClosed, listening,
                 keepAlive, closedAt, repoVars, restVars, disturbed,
                 httpConfig, httpReq, httpStatus,
                 childOut, teeSeen, spawned, exitCode, accepted>>

\* the response has ended and the request is forgotten
HttpClose(r) ==
  /\ httpStage[r] = "done"
  /\ httpReq' = [httpReq EXCEPT ![r] = NoReq]
  /\ httpStage' = [httpStage EXCEPT ![r] = "idle"]
  /\ httpStatus' = [httpStatus EXCEPT ![r] = 0]
  /\ childOut' = [childOut EXCEPT ![r] = <<>>]
  /\ teeSeen' = [teeSeen EXCEPT ![r] = 0]
  /\ emitted' = [emitted EXCEPT ![r] = <<>>]
  /\ spawned' = [spawned EXCEPT ![r] = FALSE]
  /\ exitCode' = [exitCode EXCEPT ![r] = -1]
  /\ accepted' = [accepted EXCEPT ![r] = NoUpdate]
  /\ UNCHANGED <<apiVars, busVars, pktVars, repoVars, restVars, disturbed,
                 httpConfig>>

\* ------------------------------------------------------------ REST API
\* crypto.randomBytes(16).toString('hex')
Keys == {"k1", "k2"}

\* filePath.split('/').pop()
Basename(q) == IF q = "d/project.json" THEN "project.json" ELSE q

\* JSON.parse and the check against the project schema: the short text is a
\* project document, the big blob is not
validProject(c) == c = 2

\* mutant: every file is accepted
validate_acceptsAll(fileName, data) == TRUE

\* ConfigValidator.validate: a file name no pattern matches is accepted
validate(fileName, data) ==
  IF fileName # "project.json" THEN TRUE ELSE validProject(data)

\* the status loopback answers for an error: its statusCode, or 500
statusOf(err) ==
  CASE err = "badRequestError" -> 400
    [] err = "notFoundError" -> 404
    [] err = "preconditionFailedError" -> 412
    [] OTHER -> 500

\* RepoManager.repoExists / RepoManager.getRepo
repoExists(id) == id \in repoDirs
getRepo(id) == IF repoExists(id) THEN "" ELSE "RepoDoesNotExistError"

\* ConfigStoreApi._getRepo: the promise of manager.getRepo is returned from
\* the try block without await, so its rejection never reaches the catch that
\* would turn RepoDoesNotExistError into notFoundError
getRepoApi(id) == getRepo(id)

\* the error a method passes on when _getRepo rejected with err: downloadFile
\* has its own catch for RepoDoesNotExistError, the other methods have none
repoErrorOf(op, err) ==
  IF op = "download" /\ err = "RepoDoesNotExistError" THEN "notFoundError"
  ELSE err

\* the revspecs upsertEnv is given: a revision string, or a name
BranchSpec(b) == [form |-> "branch", id |-> 0, name |-> b]
Revspecs(n) ==
  (RevStrings(n) \ {NoRev})
    \cup {BranchSpec(b) : b \in Branches \cup {"does-not-exist"}}

\* requests of the REST surface, and the call of RepoManager.createRepo by
\* the boot scripts and tests ("createRepo"), all on the producer TheProducer;
\* n is the number of commits whose hashes a client may know
RestRequests(n) ==
  {[op |-> o, env |-> "", files |-> <<>>, rev |-> NoRev, bodyId |-> ""] :
     o \in {"create", "delete", "getOne", "getAccessKey", "createRepo"}}
  \cup
  {[op |-> "getEnv", env |-> e, files |-> <<>>, rev |-> NoRev, bodyId |-> ""] :
     e \in Envs}
  \cup
  {[op |-> "download", env |-> e, files |-> [x \in {q} |-> Absent],
    rev |-> NoRev, bodyId |-> ""] : e \in Envs, q \in Paths}
  \cup
  {[op |-> "upsertEnv", env |-> e, files |-> <<>>, rev |-> rv, bodyId |-> i] :
     e \in Envs, rv \in Revspecs(n), i \in {"", "other"} \cup Envs}
  \cup
  {[op |-> "patch", env |-> e, files |-> f, rev |-> rv, bodyId |-> ""] :
     e \in Envs, f \in FileMaps, rv \in RevStrings(n)}

\* the response is sent
respond(p, st, v) ==
  /\ restResp' = [restResp EXCEPT ![p] = [status |-> st, value |-> v]]
  /\ restStage' = [restStage EXCEPT ![p] = "done"]

\* a request arrives; a PATCH is taken while the object store has room for
\* the commit it may create
RestRequest(p, rq) ==
  /\ restStage[p] = "idle"
  /\ pc[p] = "idle"
  /\ rq.op = "patch" => Room
  /\ restReq' = [restReq EXCEPT ![p] = rq]
  /\ restStage' = [restStage EXCEPT ![p] =
       CASE rq.op \in {"patch", "upsertEnv"} -> "validate"
         [] rq.op = "create" -> "exists"
         [] rq.op = "delete" -> "remove"
         [] rq.op = "createRepo" -> "manager"
         [] OTHER -> "getRepo"]
  /\ UNCHANGED <<repoDirs, restSeen, restResp>>
  /\ UNCHANGED <<lockImpl, repoVars, restVars, disturbed, httpVars, busVars, pktVars>>
  /\ UNCHANGED <<configWrite, did>>

\* updateEnvFiles up to _getOrCreateRepo: the body must name a file and every
\* file must pass the validator; upsertEnv: data.id, when given, is envId
inputError(rq) ==
  IF rq.op = "patch"
  THEN \/ DOMAIN rq.files = {}
       \/ \E q \in DOMAIN rq.files : ~validate(Basename(q), rq.files[q])
  ELSE rq.bodyId # "" /\ rq.bodyId # rq.env

RestValidate(p) ==
  /\ restStage[p] = "validate"
  /\ IF inputError(restReq[p])
     THEN respond(p, statusOf("badRequestError"), "")
     ELSE /\ restStage' = [restStage EXCEPT ![p] =
                IF restReq[p].op = "patch" THEN "exists" ELSE "getRepo"]
          /\ UNCHANGED restResp
  /\ UNCHANGED <<repoDirs, restReq, restSeen>>
  /\ UNCHANGED <<lockImpl, repoVars, restVars, disturbed, httpVars, busVars, pktVars>>
  /\ UNCHANGED <<configWrite, did>>

\* _getOrCreateRepo: await this.manager.repoExists(id)
RestExists(p) ==
  /\ restStage[p] = "exists"
  /\ restSeen' = [restSeen EXCEPT ![p] = repoExists(TheProducer)]
  /\ restStage' = [restStage EXCEPT ![p] =
       IF repoExists(TheProducer) THEN "getRepo" ELSE "createRepo"]
  /\ UNCHANGED <<repoDirs, restReq, restResp>>
  /\ UNCHANGED <<lockImpl, repoVars, restVars, disturbed, httpVars, busVars, pktVars>>
  /\ UNCHANGED <<configWrite, did>>

\* RepoManager.repoPath, and the name a GitRepo derives from its path
repoPath(id) == id \o ".git"
repoName(dirPath) == SubSeq(dirPath, 1, Len(dirPath) - 4)

\* mutant: the directory is initialized whether or not it exists
createRepo_alwaysInit(dirs, id) ==
  [dirs |-> dirs \cup {id}, init |-> TRUE, path |-> repoPath(id)]

\* RepoManager.createRepo: mkdir and Repository.init when the directory is
\* missing, nothing when it is there, then getRepo: the directories
\* afterwards, whether init ran, and the path of the GitRepo returned
createRepo(dirs, id) ==
  IF id \in dirs THEN [dirs |-> dirs, init |-> FALSE, path |-> repoPath(id)]
  ELSE [dirs |-> dirs \cup {id}, init |-> TRUE, path |-> repoPath(id)]

\* the repository Repository.init leaves in a new directory
initRepo ==
  /\ commits' = <<>>
  /\ refs' = [b \in Branches |-> 0]
  /\ head' = "master"
  /\ wt' = EmptyTree
  /\ index' = EmptyTree

\* _createRepo: manager.createRepo, then configureRepoForHttp with a new key
RestCreateRepo(p, k) ==
  LET cr == createRepo(repoDirs, TheProducer) IN
  /\ restStage[p] = "createRepo"
  /\ repoDirs' = cr.dirs
  /\ IF cr.init THEN initRepo ELSE UNCHANGED repoVars
  /\ accessKey' = k
  /\ restStage' = [restStage EXCEPT ![p] = "op"]
  /\ UNCHANGED <<restReq, restSeen, restResp>>
  /\ UNCHANGED <<lockImpl, restVars, disturbed, busVars, pktVars>>
  /\ UNCHANGED <<authOnPrivateNetworks, httpReq, httpStage, httpStatus,
                 childOut, teeSeen, emitted, spawned, exitCode, accepted>>
  /\ UNCHANGED <<configWrite, did>>

\* RepoManager.createRepo called on its own
ManagerCreateRepo(p) ==
  LET cr == createRepo(repoDirs, TheProducer) IN
  /\ restStage[p] = "manager"
  /\ repoDirs' = cr.dirs
  /\ IF cr.init THEN initRepo ELSE UNCHANGED repoVars
  /\ respond(p, 200, cr.path)
  /\ UNCHANGED <<restReq, restSeen>>
  /\ UNCHANGED <<lockImpl, restVars, disturbed, httpVars, busVars, pktVars>>
  /\ UNCHANGED <<configWrite, did>>

\* _getRepo, or the getRepo of _getOrCreateRepo
RestGetRepo(p) ==
  LET err == getRepoApi(TheProducer) IN
  /\ restStage[p] = "getRepo"
  /\ IF err = ""
     THEN /\ restStage' = [restStage EXCEPT ![p] = "op"]
          /\ UNCHANGED restResp
     ELSE respond(p, statusOf(repoErrorOf(restReq[p].op, err)), "")
  /\ UNCHANGED <<repoDirs, restReq, restSeen>>
  /\ UNCHANGED <<lockImpl, repoVars, restVars, disturbed, httpVars, busVars, pktVars>>
  /\ UNCHANGED <<configWrite, did>>

\* GitRepo.getBranchRevision: InvalidBranchError when the branch is missing
getBranchRevision(b) ==
  IF refs[b] = 0 THEN [ok |-> FALSE, value |-> NoRev, error |-> "InvalidBranchError"]
  ELSE [ok |-> TRUE, value |-> tostrS(refs[b]), error |-> ""]

\* what a revspec resolves to: a commit id, or 0 when it names nothing
revparse(spec) ==
  CASE spec.form \in {"hex", "HEX"} -> spec.id
    [] spec.form = "branch" ->
         IF spec.name \in Branches THEN refs[spec.name] ELSE 0
    [] OTHER -> 0

\* GitRepo.upsertBranch: the branch is created at, or forced to, the commit
\* the revspec resolves to, and the hash of that commit is returned
upsertBranch(b, spec) ==
  LET c == revparse(spec) IN
  IF c = 0
  THEN [ok |-> FALSE, value |-> NoRev, error |-> "RevisionNotFound",
        refs |-> refs]
  ELSE [ok |-> TRUE, value |-> tostrS(c), error |-> "",
        refs |-> [refs EXCEPT ![b] = c]]

\* mutant: the revision of the request is echoed
upsertEnvResponse_echo(rq, res) ==
  IF res.ok THEN [status |-> 200, value |-> rq.rev]
  ELSE IF res.error = "RevisionNotFound"
  THEN [status |-> statusOf("badRequestError"), value |-> NoRev]
  ELSE [status |-> statusOf(res.error), value |-> NoRev]

\* upsertEnv: {id, revision: newRevision}, RevisionNotFound becomes 400
upsertEnvResponse(rq, res) ==
  IF res.ok THEN [status |-> 200, value |-> res.value]
  ELSE IF res.error = "RevisionNotFound"
  THEN [status |-> statusOf("badRequestError"), value |-> NoRev]
  ELSE [status |-> statusOf(res.error), value |-> NoRev]

\* getEnv: InvalidBranchError becomes 404
getEnvResponse(res) ==
  IF res.ok THEN [status |-> 200, value |-> res.value]
  ELSE IF res.error = "InvalidBranchError"
  THEN [status |-> statusOf("notFoundError"), value |-> NoRev]
  ELSE [status |-> statusOf(res.error), value |-> NoRev]

\* the methods that read: create (the repository is there), getOne
\* (_getRepoInfo), getEnv, downloadFile, getAccessKey
RestRead(p) ==
  LET rq == restReq[p] IN
  /\ restStage[p] = "op"
  /\ rq.op \in {"create", "getOne", "getEnv", "download", "getAccessKey"}
  /\ restStage' = [restStage EXCEPT ![p] = "done"]
  /\ restResp' = [restResp EXCEPT ![p] =
       CASE rq.op = "getEnv" -> getEnvResponse(getBranchRevision(envBranch(rq.env)))
         [] rq.op = "download" ->
              LET g == CHOOSE q \in DOMAIN rq.files : TRUE
                  d == downloadFile(rq.env, g) IN
              [status |-> d.status, value |-> d.body]
         [] rq.op = "getAccessKey" -> [status |-> 200, value |-> accessKey]
         [] OTHER -> [status |-> 200, value |-> TheProducer]]
  /\ UNCHANGED <<repoDirs, restReq, restSeen>>
  /\ UNCHANGED <<lockImpl, repoVars, restVars, disturbed, httpVars, busVars, pktVars>>
  /\ UNCHANGED <<configWrite, did>>

\* upsertEnv: repo.upsertBranch('env/' + envId, env.revision)
RestUpsertEnv(p) ==
  LET rq == restReq[p]
      res == upsertBranch(envBranch(rq.env), rq.rev) IN
  /\ restStage[p] = "op"
  /\ rq.op = "upsertEnv"
  /\ refs' = res.refs
  /\ restStage' = [restStage EXCEPT ![p] = "done"]
  /\ restResp' = [restResp EXCEPT ![p] = upsertEnvResponse(rq, res)]
  /\ UNCHANGED <<repoDirs, restReq, restSeen>>
  /\ UNCHANGED <<lockImpl, commits, head, wt, index, restVars, disturbed,
                 httpVars, busVars, pktVars>>
  /\ UNCHANGED <<configWrite, did>>

\* updateEnvFiles: repo.updateBranchFiles('env/' + envId, parentRevision, data)
RestPatchCall(p) ==
  LET rq == restReq[p] IN
  /\ restStage[p] = "op"
  /\ rq.op = "patch"
  /\ startCall(p, envBranch(rq.env), rq.rev, rq.files)
  /\ restStage' = [restStage EXCEPT ![p] = "txn"]
  /\ UNCHANGED <<repoDirs, restReq, restSeen, restResp>>
  /\ UNCHANGED <<httpVars, busVars, pktVars>>
  /\ UNCHANGED <<configWrite, did>>

\* updateEnvFiles: cb(null, rev) or cb(err) once updateBranchFiles settled
RestPatchDone(p) ==
  LET r == patchResponse(result[p]) IN
  /\ restStage[p] = "txn"
  /\ pc[p] = "done"
  /\ respond(p, r.status, r.etag)
  /\ UNCHANGED <<repoDirs, restReq, restSeen>>
  /\ UNCHANGED <<lockImpl, repoVars, restVars, disturbed, httpVars, busVars, pktVars>>
  /\ UNCHANGED <<configWrite, did>>

\* delete: manager.removeRepo, rimraf of the directory when it exists; the
\* model of a missing repository holds what Repository.init would leave
RestRemove(p) ==
  /\ restStage[p] = "remove"
  /\ repoDirs' = repoDirs \ {TheProducer}
  /\ initRepo
  /\ accessKey' = ""
  /\ respond(p, 200, IF repoExists(TheProducer) THEN "1" ELSE "0")
  /\ UNCHANGED <<restReq, restSeen>>
  /\ UNCHANGED <<lockImpl, restVars, disturbed, busVars, pktVars>>
  /\ UNCHANGED <<authOnPrivateNetworks, httpReq, httpStage, httpStatus,
                 childOut, teeSeen, emitted, spawned, exitCode, accepted>>
  /\ UNCHANGED <<configWrite, did>>

\* the response has gone out and the request is forgotten
RestClose(p) ==
  /\ restStage[p] = "done"
  /\ pc[p] = "idle"
  /\ restReq' = [restReq EXCEPT ![p] = NoRest]
  /\ restStage' = [restStage EXCEPT ![p] = "idle"]
  /\ restSeen' = [restSeen EXCEPT ![p] = FALSE]
  /\ restResp' = [restResp EXCEPT ![p] = NoResp]
  /\ UNCHANGED repoDirs
  /\ UNCHANGED <<lockImpl, repoVars, restVars, disturbed, httpVars, busVars, pktVars>>
  /\ did' = [did EXCEPT ![p] = {}]
  /\ UNCHANGED configWrite

\* ------------------------------------------ REST API: overlapping calls
\* requests that create or configure the repository of TheProducer
AdminRequests ==
  {[op |-> o, env |-> "", files |-> <<>>, rev |-> NoRev, bodyId |-> ""] :
     o \in {"create", "createRepo", "regenerate", "getAccessKey"}}

\* RepoManager.createRepo: this.repoExists(repoName)
CreateRepoExists(p) ==
  /\ restStage[p] \in {"manager", "createRepo"}
  /\ restStage' = [restStage EXCEPT ![p] =
                     IF repoExists(TheProducer) THEN "crGet" ELSE "mkdir"]
  /\ UNCHANGED <<repoDirs, restReq, restSeen, restResp, configWrite, did>>
  /\ UNCHANGED <<lockImpl, repoVars, restVars, disturbed, httpVars, busVars, pktVars>>

\* fs.mkdirAsync of a directory that is there fails with EEXIST
mkdir(dirs, id) ==
  IF id \in dirs THEN [ok |-> FALSE, dirs |-> dirs]
  ELSE [ok |-> TRUE, dirs |-> dirs \cup {id}]

\* RepoManager.createRepo: fs.mkdirAsync(this.repoPath(repoName))
CreateRepoMkdir(p) ==
  LET m == mkdir(repoDirs, TheProducer) IN
  /\ restStage[p] = "mkdir"
  /\ repoDirs' = m.dirs
  /\ IF m.ok
     THEN /\ restStage' = [restStage EXCEPT ![p] = "init"]
          /\ did' = [did EXCEPT ![p] = did[p] \cup {"mkdir"}]
          /\ UNCHANGED restResp
     ELSE /\ respond(p, statusOf("EEXIST"), "")
          /\ UNCHANGED did
  /\ UNCHANGED <<restReq, restSeen, configWrite>>
  /\ UNCHANGED <<lockImpl, repoVars, restVars, disturbed, httpVars, busVars, pktVars>>

\* RepoManager.createRepo: git.Repository.init(path, 0)
CreateRepoInit(p) ==
  /\ restStage[p] = "init"
  /\ initRepo
  /\ restStage' = [restStage EXCEPT ![p] = "crGet"]
  /\ did' = [did EXCEPT ![p] = did[p] \cup {"init"}]
  /\ UNCHANGED <<repoDirs, restReq, restSeen, restResp, configWrite>>
  /\ UNCHANGED <<lockImpl, restVars, disturbed, httpVars, busVars, pktVars>>

\* RepoManager.createRepo: this.getRepo(repoName); the caller is done, or
\* _createRepo goes on to configureRepoForHttp
CreateRepoGet(p) ==
  LET err == getRepo(TheProducer) IN
  /\ restStage[p] = "crGet"
  /\ IF err # "" THEN respond(p, statusOf(err), "")
     ELSE IF restReq[p].op = "createRepo"
     THEN respond(p, 200, repoPath(TheProducer))
     ELSE /\ restStage' = [restStage EXCEPT ![p] = "configure"]
          /\ UNCHANGED restResp
  /\ UNCHANGED <<repoDirs, restReq, restSeen, configWrite, did>>
  /\ UNCHANGED <<lockImpl, repoVars, restVars, disturbed, httpVars, busVars, pktVars>>

\* _createRepo: await configureRepoForHttp(repo.path, this._generateKey())
RestConfigure(p, k) ==
  /\ restStage[p] = "configure"
  /\ accessKey' = k
  /\ restStage' = [restStage EXCEPT ![p] = "op"]
  /\ did' = [did EXCEPT ![p] = did[p] \cup {"configure"}]
  /\ UNCHANGED <<repoDirs, restReq, restSeen, restResp, configWrite>>
  /\ UNCHANGED <<lockImpl, repoVars, restVars, disturbed, busVars, pktVars>>
  /\ UNCHANGED <<authOnPrivateNetworks, httpReq, httpStage, httpStatus,
                 childOut, teeSeen, emitted, spawned, exitCode, accepted>>

\* repo.setConfigVariables({'lunchbadger.accesskey': key}) as
\* regenerateAccessKey calls it: the write is started and not awaited
setConfigVariables(pending, key) ==
  [pending |-> pending \cup {key}, written |-> ""]

\* regenerateAccessKey after _getRepo: the key is generated, the write is
\* started, the handle is cleaned up and the key is returned
RestRegenerate(p, k) ==
  LET w == setConfigVariables(configWrite, k) IN
  /\ restStage[p] = "op"
  /\ restReq[p].op = "regenerate"
  /\ configWrite' = w.pending
  /\ accessKey' = IF w.written = "" THEN accessKey ELSE w.written
  /\ respond(p, 200, k)
  /\ UNCHANGED <<repoDirs, restReq, restSeen, did>>
  /\ UNCHANGED <<lockImpl, repoVars, restVars, disturbed, busVars, pktVars>>
  /\ UNCHANGED <<authOnPrivateNetworks, httpReq, httpStage, httpStatus,
                 childOut, teeSeen, emitted, spawned, exitCode, accepted>>

\* a write of the config started earlier reaches the file
ConfigWriteDone(k) ==
  /\ k \in configWrite
  /\ configWrite' = configWrite \ {k}
  /\ accessKey' = k
  /\ UNCHANGED <<repoDirs, restReq, restStage, restSeen, restResp, did>>
  /\ UNCHANGED <<lockImpl, repoVars, restVars, disturbed, busVars, pktVars>>
  /\ UNCHANGED <<authOnPrivateNetworks, httpReq, httpStage, httpStatus,
                 childOut, teeSeen, emitted, spawned, exitCode, accepted>>

\* ---------------------------------------------------------- PacketParser
\* A string is the sequence of its characters.
HexDigits == {"0", "4", "5", "6", "a", "b"}
HexVal(c) ==
  CASE c = "0" -> 0 [] c = "4" -> 4 [] c = "5" -> 5 [] c = "6" -> 6
    [] c = "a" -> 10 [] c = "b" -> 11 [] OTHER -> 0

\* str.substr(pos, n), pos counted from 0
substr(str, pos, n) ==
  IF pos >= Len(str) THEN <<>>
  ELSE SubSeq(str, pos + 1, IF pos + n > Len(str) THEN Len(str) ELSE pos + n)

\* strLen.match(/^[0-9a-fA-F]{4}$/)
isLength(strLen) ==
  Len(strLen) = 4 /\ \A i \in 1..4 : strLen[i] \in HexDigits

\* parseInt(strLen, 16)
parseInt(strLen) ==
  4096 * HexVal(strLen[1]) + 256 * HexVal(strLen[2])
    + 16 * HexVal(strLen[3]) + HexVal(strLen[4])

\* mutant: a length of 4 is let through
tooShort_below4(len) == len < 4

\* len <= 4
tooShort(len) == len <= 4

EndEvent == [type |-> "end", len |-> 0, data |-> <<>>]
PacketEvent(len, data) == [type |-> "packet", len |-> len, data |-> data]

\* the while loop of feed(), from position pos of the buffer: where it
\* stops, whether the parser is still ok, and the events emitted
RECURSIVE feedLoop(_, _, _)
feedLoop(buf, pos, evs) ==
  IF Len(buf) <= pos THEN [pos |-> pos, ok |-> TRUE, events |-> evs]
  ELSE
    LET strLen == substr(buf, pos, 4) IN
    IF strLen = <<"0", "0", "0", "0">>
    THEN feedLoop(buf, pos + 5, Append(evs, EndEvent))
    ELSE IF ~isLength(strLen)
    THEN [pos |-> pos, ok |-> FALSE, events |-> evs]
    ELSE IF tooShort(parseInt(strLen))
    THEN [pos |-> pos, ok |-> FALSE, events |-> evs]
    ELSE IF parseInt(strLen) > pos + Len(buf)
    THEN [pos |-> pos, ok |-> TRUE, events |-> evs]
    ELSE feedLoop(buf, pos + parseInt(strLen),
                  Append(evs, PacketEvent(parseInt(strLen),
                         substr(buf, pos + 4, parseInt(strLen) - 4))))

\* PacketParser.feed(chunk) on a parser [buffer, ok, events]
feed(parser, chunk) ==
  IF ~parser.ok THEN parser
  ELSE LET buf == parser.buffer \o chunk
           r == feedLoop(buf, 0, parser.events) IN
       [buffer |-> substr(buf, r.pos, Len(buf)), ok |-> r.ok,
        events |-> r.events]

\* new PacketParser()
NewParser == [buffer |-> <<>>, ok |-> TRUE, events |-> <<>>]

\* pkt-lines a stream is made of: two data packets, the flush packet, a
\* length of 4 and a length that is not hexadecimal
PktLines ==
  {<<"0", "0", "0", "5", "a">>, <<"0", "0", "0", "6", "a", "b">>,
   <<"0", "0", "0", "0">>, <<"0", "0", "0", "4">>, <<"0", "0", "x", "5">>}
RECURSIVE Streams(_)
Streams(n) ==
  IF n = 0 THEN {<<>>}
  ELSE Streams(n - 1) \cup {st \o l : st \in Streams(n - 1), l \in PktLines}

\* GitServiceTee._transform(chunk): the parser is fed, then callback(null,
\* chunk) passes the chunk on; the chunk is the next n characters
TeeTransformChunk(n) ==
  LET chunk == SubSeq(feedIn, 1, n)
      after == feed([buffer |-> parserBuffer, ok |-> parserOk,
                     events |-> events], chunk) IN
  /\ n \in 1..Len(feedIn)
  /\ feedIn' = SubSeq(feedIn, n + 1, Len(feedIn))
  /\ parserBuffer' = after.buffer
  /\ parserOk' = after.ok
  /\ events' = after.events
  /\ piped' = piped \o chunk
  /\ UNCHANGED <<stream, reportIn, pushOut>>
  /\ UNCHANGED <<repoVars, restVars, disturbed, httpVars, apiVars, busVars>>

\* --------------------------------------------- receive-pack change list
\* lines '<before> <after> refs/<ns>/<name>' a child may print
RefLines ==
  {[kind |-> "line", before |-> 0, after |-> 1, ns |-> "heads", name |-> "master"],
   [kind |-> "line", before |-> 1, after |-> 2, ns |-> "tags", name |-> "v1"],
   [kind |-> "line", before |-> 0, after |-> 1, ns |-> "notes", name |-> "n"]}

\* payloads of the packets the tee's parser emits: one line, an empty line,
\* other text, a sideband byte alone or before a line
ReportPayloads ==
  {<<t>> : t \in RefLines \cup {BlankToken, TextToken, BandToken}}
    \cup {<<BandToken, t>> : t \in RefLines}

RECURSIVE Reports(_)
Reports(n) ==
  IF n = 0 THEN {<<>>}
  ELSE Reports(n - 1) \cup {Append(rp, pl) : rp \in Reports(n - 1),
                                             pl \in ReportPayloads}

\* git.on('exit') of a receive-pack child that exited with 0: tee.end(),
\* then callback(tee.output)
ReportExit ==
  LET o == pushCallback(teeOutput(reportIn, Len(reportIn))) IN
  /\ ~pushOut.ran
  /\ pushOut' = [ran |-> TRUE, threw |-> o.threw, changes |-> o.changes]
  /\ UNCHANGED <<feedIn, stream, parserBuffer, parserOk, events, piped,
                 reportIn>>
  /\ UNCHANGED <<repoVars, restVars, disturbed, httpVars, apiVars, busVars>>

\* ------------------------------------------------------- change stream
\* the commit id standing for DETACHED, forty zeros
DETACHED == 0

\* repo.getBranches(): the names under refs/heads
getBranches == {b \in Branches : refs[b] # 0}

\* branchRefs of repoEventStream: every branch with its revision, and master
\* as DETACHED when there is no master
branchRefs ==
  [b \in getBranches \cup {"master"} |->
     IF b \in getBranches THEN refs[b] ELSE DETACHED]

\* repoEventStream up to its first await: the stream is made, the timer is
\* started, the push listener and the close listener are registered
Subscribe(s, producerId) ==
  /\ subStage[s] = "idle"
  /\ subStage' = [subStage EXCEPT ![s] = "getRepo"]
  /\ subProducer' = [subProducer EXCEPT ![s] = producerId]
  /\ subQueue' = [subQueue EXCEPT ![s] = <<>>]
  /\ keepAlive' = [keepAlive EXCEPT ![s] = TRUE]
  /\ listening' = [listening EXCEPT ![s] = TRUE]
  /\ UNCHANGED <<subClosed, heard, closedAt>>
  /\ UNCHANGED <<repoVars, restVars, disturbed, httpVars, apiVars, pktVars>>

\* await this._getRepo(producerId): a missing repository rejects the method,
\* the listeners stay as they are
SubGetRepo(s) ==
  /\ subStage[s] = "getRepo"
  /\ subStage' = [subStage EXCEPT ![s] =
                    IF getRepoApi(subProducer[s]) = "" THEN "snapshot"
                    ELSE "failed"]
  /\ UNCHANGED <<subProducer, subClosed, subQueue, listening, keepAlive,
                 heard, closedAt>>
  /\ UNCHANGED <<repoVars, restVars, disturbed, httpVars, apiVars, pktVars>>

\* changes.write({type: 'initial', branches: branchRefs}): after a close
\* changes is null and the call throws TypeError
writeInitial_unchecked(s) ==
  [threw |-> FALSE, queue |-> write(subQueue[s], InitialEvent(branchRefs))]
writeInitial(s) ==
  IF subClosed[s] THEN [threw |-> TRUE, queue |-> subQueue[s]]
  ELSE [threw |-> FALSE, queue |-> write(subQueue[s], InitialEvent(branchRefs))]

\* the branches are read and the initial event is written; the stream is
\* returned unless that threw
SubInitial(s) ==
  LET w == writeInitial(s) IN
  /\ subStage[s] = "snapshot"
  /\ subStage' = [subStage EXCEPT ![s] = IF w.threw THEN "failed" ELSE "open"]
  /\ subQueue' = [subQueue EXCEPT ![s] = w.queue]
  /\ UNCHANGED <<subProducer, subClosed, listening, keepAlive, heard,
                 closedAt>>
  /\ UNCHANGED <<repoVars, restVars, disturbed, httpVars, apiVars, pktVars>>

\* the setInterval callback: changes.write({type: 'keepalive'})
KeepAliveTick(s) ==
  /\ keepAlive[s]
  /\ subQueue' = [subQueue EXCEPT ![s] = write(subQueue[s], KeepAliveEvent)]
  /\ UNCHANGED <<subProducer, subStage, subClosed, listening, keepAlive,
                 heard, closedAt>>
  /\ UNCHANGED <<repoVars, restVars, disturbed, httpVars, apiVars, pktVars>>

\* req.on('close'): the push listener is removed, the timer is cleared and
\* changes becomes null
SubClose(s) ==
  /\ subStage[s] \in {"getRepo", "snapshot", "open", "failed"}
  /\ closedAt[s] = -1
  /\ listening' = [listening EXCEPT ![s] = FALSE]
  /\ keepAlive' = [keepAlive EXCEPT ![s] = FALSE]
  /\ subClosed' = [subClosed EXCEPT ![s] = TRUE]
  /\ closedAt' = [closedAt EXCEPT ![s] = Len(subQueue[s])]
  /\ UNCHANGED <<subProducer, subStage, subQueue, heard>>
  /\ UNCHANGED <<repoVars, restVars, disturbed, httpVars, apiVars, pktVars>>

\* ------------------------------------------------------------------ Next
\* One REST writer at a time, with pushes arriving at any moment.
Writer == "w1"

Next ==
  \/ \E b \in Branches, f \in FileMaps :
       \E rev \in RevStrings(Len(commits)) : Call(Writer, b, rev, f)
  \/ LockAcquire(Writer)
  \/ BodyCheckout(Writer)
  \/ BodyWrite(Writer)
  \/ BodyCommit(Writer)
  \/ LockRelease(Writer)
  \/ Return(Writer)
  \/ \E b \in Branches, t \in PushTrees : GitPushCommit(b, t)
  \/ \E b \in Branches : \E c \in 1..Len(commits) : GitPushBranch(b, c)

Spec == Init /\ [][Next]_vars

\* Two REST writers whose calls overlap; their file maps write path "a" only
\* and their revisions are hashes of commits or absent.
LockFiles == {f \in FileMaps : DOMAIN f = {"a"}}
LockRevs(n) == {NoRev} \cup {tostrS(i) : i \in 1..n}

NextLock ==
  \/ \E p \in Procs, b \in Branches, f \in LockFiles :
       \E rev \in LockRevs(Len(commits)) : Call(p, b, rev, f)
  \/ \E p \in Procs : LockAcquire(p)
  \/ \E p \in Procs : BodyCheckout(p)
  \/ \E p \in Procs : BodyWrite(p)
  \/ \E p \in Procs : BodyCommit(p)
  \/ \E p \in Procs : LockRelease(p)
  \/ \E p \in Procs : Return(p)
  \/ \E b \in Branches : \E c \in 1..Len(commits) : GitPushBranch(b, c)

SpecLock == Init /\ [][NextLock]_vars

\* The Git HTTP server with one request at a time, on a repository that is
\* written by pushes only.
Client == "r1"

InitHttp ==
  /\ lockImpl = "async"
  /\ RepoCreated
  /\ authOnPrivateNetworks \in BOOLEAN
  /\ accessKey \in {"", "k1"}
  /\ HttpQuiet
  /\ repoDirs = {TheProducer}
  /\ RestQuiet
  /\ BusQuiet
  /\ TeeQuiet

NextHttp ==
  \/ \E rq \in HttpRequests : HttpRequest(Client, rq)
  \/ Authenticate(Client)
  \/ Handler(Client)
  \/ ChildServe(Client)
  \/ \E b \in Branches, t \in PushTrees : ChildReceiveCommit(Client, b, t)
  \/ ChildReceiveReject(Client)
  \/ \E code \in {1, 128} : ChildReceiveFail(Client, code)
  \/ TeeTransform(Client)
  \/ ChildExit(Client)
  \/ HttpClose(Client)

SpecHttp == InitHttp /\ [][NextHttp]_vars

\* The REST surface serving one request at a time on one producer, whose
\* repository may not exist yet and, once it exists, is pushed to as well.
InitRest ==
  /\ lockImpl \in LockImpls
  /\ RepoCreated
  /\ authOnPrivateNetworks = TRUE
  /\ accessKey \in {"", "k1"}
  /\ repoDirs = IF accessKey = "" THEN {} ELSE {TheProducer}
  /\ HttpQuiet
  /\ RestQuiet
  /\ BusQuiet
  /\ TeeQuiet

NextRest ==
  \/ \E rq \in RestRequests(Len(commits)) : RestRequest(Writer, rq)
  \/ RestValidate(Writer)
  \/ RestExists(Writer)
  \/ \E k \in Keys : RestCreateRepo(Writer, k)
  \/ ManagerCreateRepo(Writer)
  \/ RestGetRepo(Writer)
  \/ RestRead(Writer)
  \/ RestUpsertEnv(Writer)
  \/ RestPatchCall(Writer)
  \/ LockAcquire(Writer)
  \/ BodyCheckout(Writer)
  \/ BodyWrite(Writer)
  \/ BodyCommit(Writer)
  \/ LockRelease(Writer)
  \/ RestPatchDone(Writer)
  \/ restStage[Writer] = "done" /\ Return(Writer)
  \/ RestRemove(Writer)
  \/ RestClose(Writer)
  \/ /\ repoExists(TheProducer)
     /\ \E b \in Branches, t \in PushTrees : GitPushCommit(b, t)

SpecRest == InitRest /\ [][NextRest]_vars

\* The change stream: a subscriber, and pushes of master by two Git HTTP
\* clients inside the private network, which needs no key here.
StreamPushes ==
  {rq \in HttpRequests :
     /\ rq.method = "POST"
     /\ rq.service = "git-receive-pack"
     /\ rq.contentType = "application/x-git-receive-pack-request"
     /\ rq.addr = <<10, 1>>
     /\ rq.creds = NoCreds}

QueueRoom == \A s \in Subs : Len(subQueue[s]) < MaxEvents

InitStream ==
  /\ lockImpl = "async"
  /\ RepoCreated
  /\ authOnPrivateNetworks = FALSE
  /\ accessKey = "k1"
  /\ HttpQuiet
  /\ repoDirs = {TheProducer}
  /\ RestQuiet
  /\ BusQuiet
  /\ TeeQuiet

NextStream ==
  \/ \E r \in Reqs, rq \in StreamPushes : HttpRequest(r, rq)
  \/ \E r \in Reqs : Authenticate(r)
  \/ \E r \in Reqs : Handler(r)
  \/ \E r \in Reqs, t \in PushTrees : ChildReceiveCommit(r, "master", t)
  \/ \E r \in Reqs : ChildReceiveReject(r)
  \/ \E r \in Reqs : ChildReceiveFail(r, 128)
  \/ \E r \in Reqs : TeeTransform(r)
  \/ \E r \in Reqs : QueueRoom /\ ChildExit(r)
  \/ \E r \in Reqs : HttpClose(r)
  \/ \E s \in Subs, id \in ProducerIds : Subscribe(s, id)
  \/ \E s \in Subs : SubGetRepo(s)
  \/ \E s \in Subs : SubInitial(s)
  \/ \E s \in Subs : QueueRoom /\ KeepAliveTick(s)
  \/ \E s \in Subs : SubClose(s)

SpecStream == InitStream /\ [][NextStream]_vars

\* The tee of one git-receive-pack child: its stdout arrives in chunks cut
\* anywhere.
InitParser ==
  /\ lockImpl = "async"
  /\ RepoCreated
  /\ authOnPrivateNetworks = TRUE
  /\ accessKey = "k1"
  /\ HttpQuiet
  /\ repoDirs = {TheProducer}
  /\ RestQuiet
  /\ BusQuiet
  /\ stream \in Streams(MaxPackets)
  /\ feedIn = stream
  /\ parserBuffer = <<>>
  /\ parserOk = TRUE
  /\ events = <<>>
  /\ piped = <<>>
  /\ reportIn = <<>>
  /\ pushOut = NoPush

NextParser == \E n \in 1..(6 * MaxPackets) : TeeTransformChunk(n)

SpecParser == InitParser /\ [][NextParser]_vars

\* The callback of one receive-pack request, over the packets its tee saw.
InitReport ==
  /\ lockImpl = "async"
  /\ RepoCreated
  /\ authOnPrivateNetworks = TRUE
  /\ accessKey = "k1"
  /\ HttpQuiet
  /\ repoDirs = {TheProducer}
  /\ RestQuiet
  /\ BusQuiet
  /\ feedIn = <<>>
  /\ stream = <<>>
  /\ parserBuffer = <<>>
  /\ parserOk = TRUE
  /\ events = <<>>
  /\ piped = <<>>
  /\ reportIn \in Reports(MaxPackets)
  /\ pushOut = NoPush

NextReport == ReportExit

SpecReport == InitReport /\ [][NextReport]_vars

\* Two REST clients creating and configuring the repository of a new
\* producer at the same time, and a Git client presenting a key.
KeyChecks ==
  {rq \in HttpRequests :
     /\ rq.method = "GET"
     /\ rq.repo = "test-repo.git"
     /\ rq.service = "git-upload-pack"
     /\ rq.addr = <<8, 8>>
     /\ rq.creds \in {Basic("git", "k1"), Basic("git", "k2")}}

InitAdmin ==
  /\ lockImpl = "async"
  /\ RepoCreated
  /\ authOnPrivateNetworks = TRUE
  /\ accessKey = ""
  /\ HttpQuiet
  /\ repoDirs = {}
  /\ RestQuiet
  /\ BusQuiet
  /\ TeeQuiet

NextAdmin ==
  \/ \E p \in Procs, rq \in AdminRequests : RestRequest(p, rq)
  \/ \E p \in Procs : RestExists(p)
  \/ \E p \in Procs : CreateRepoExists(p)
  \/ \E p \in Procs : CreateRepoMkdir(p)
  \/ \E p \in Procs : CreateRepoInit(p)
  \/ \E p \in Procs : CreateRepoGet(p)
  \/ \E p \in Procs, k \in Keys : RestConfigure(p, k)
  \/ \E p \in Procs : RestGetRepo(p)
  \/ \E p \in Procs : RestRead(p)
  \/ \E p \in Procs, k \in Keys : RestRegenerate(p, k)
  \/ \E k \in Keys : ConfigWriteDone(k)
  \/ \E p \in Procs : RestClose(p)
  \/ \E rq \in KeyChecks : HttpRequest(Client, rq)
  \/ Authenticate(Client)
  \/ Handler(Client)
  \/ ChildServe(Client)
  \/ ChildExit(Client)
  \/ HttpClose(Client)

SpecAdmin == InitAdmin /\ [][NextAdmin]_vars

TypeOK ==
  /\ lockImpl \in LockImpls
  /\ Len(commits) <= MaxCommits
  /\ refs \in [Branches -> 0..Len(commits)]
  /\ head \in Branches
  /\ wt \in Trees /\ index \in Trees
  /\ lockHolder \in Procs \cup {""}

\* ===================================================================
\* Claims
\* ===================================================================
Done(p) == pc[p] = "done"
Given(rev) == rev.form # "none"
BodyRan(p) == fnResult[p].status # "none"

\* C1: after an updateBranchFiles call that succeeded, and before anything
\* else moves the branch, branchRevision(b) is the revision string the call
\* returned.
C1_ReturnedIsBranchRevision ==
  \A p \in Procs :
    (Done(p) /\ result[p].status = "resolved" /\ ~disturbed[p])
      => result[p].value = tostrS(refs[call[p].branchName])

\* C2: a call on a branch with a head commit whose parentRevision is given
\* and does not resolve to that head fails with OptimisticConcurrency and
\* leaves commits, refs, HEAD, index and working tree as they were.
C2_StaleParentRejectedUnchanged ==
  [][\A p \in Procs :
       LET b == call[p].branchName
           rev == call[p].parentRevision
           found == lookupPrefix(rev) IN
       (/\ pc[p] = "checkout" /\ pc'[p] # "checkout"
        /\ refs[b] # 0
        /\ Given(rev)
        /\ ~(found.ok /\ found.id = refs[b]))
         => /\ fnResult'[p] = Threw("OptimisticConcurrencyError")
            /\ repoVars' = repoVars]_vars

\* C4: a call on a branch whose head is parentRev and whose tree already
\* holds the given contents at the given paths returns parentRev and creates
\* no commit.
C4_NoOpReturnsParent ==
  \A p \in Procs :
    LET rev == call[p].parentRevision
        f == call[p].files
        found == lookupPrefix(rev) IN
    (/\ Done(p) /\ BodyRan(p)
     /\ found.ok /\ headCommit[p] = found.id
     /\ \A q \in DOMAIN f : TreeOf(found.id)[q] = f[q])
      => /\ result[p] = Resolved(rev)
         /\ created[p] = 0

\* C8: when the body completes with value r, lock() resolves to r.
C8_ResolvesToBodyValue ==
  \A p \in Procs :
    (Done(p) /\ fnResult[p].status = "returned")
      => result[p] = Resolved(fnResult[p].value)

\* C9: when open or flock fails for a reason other than the lock being held,
\* lock() rejects with that error and the body is never called.
C9_AcquireErrorPropagates ==
  \A p \in Procs :
    (Done(p) /\ acquireErr[p] \notin {"", "EAGAIN"})
      => /\ result[p] = Rejected(acquireErr[p])
         /\ ~BodyRan(p)

\* C5 (as claimed): after updateBranchFiles(b, _, {p: v}) succeeded and
\* with no later write to b (none since the call read the head of b),
\* getFile(b, p) returns (v, branchRevision(b)) whatever v is.
C5_ReadBackAnyContent ==
  \A p \in Procs :
    (Done(p) /\ result[p].status = "resolved" /\ ~disturbed[p])
      => \A q \in DOMAIN call[p].files :
           LET r == getFile(call[p].branchName, q) IN
           /\ r.ok
           /\ r.content = call[p].files[q]
           /\ r.chksum = tostrS(refs[call[p].branchName])

\* C5 (amended): with no other write to b, a push included, since the call
\* read the head of b, getFile(b, p) returns (v, branchRevision(b)) for
\* every v of at most 1 MiB; for a larger v getFile fails.
C5_ReadBack ==
  \A p \in Procs :
    (Done(p) /\ result[p].status = "resolved" /\ ~disturbed[p])
      => \A q \in DOMAIN call[p].files :
           LET r == getFile(call[p].branchName, q)
               v == call[p].files[q] IN
           IF rawsize(v) <= 1024 * 1024
           THEN /\ r.ok
                /\ r.content = v
                /\ r.chksum = tostrS(refs[call[p].branchName])
           ELSE ~r.ok

C5_Witness ==
  \E p \in Procs :
    /\ Done(p) /\ result[p].status = "resolved" /\ ~disturbed[p]
    /\ created[p] # 0
    /\ \E q \in DOMAIN call[p].files :
         /\ rawsize(call[p].files[q]) <= 1024 * 1024
         /\ getFile(call[p].branchName, q).content = call[p].files[q]

\* C7: once lock() has acquired the lock and the body has settled, the
\* settled promise leaves the lock free and the descriptor closed, whether
\* the body returned or threw; and when the body threw e the promise is
\* rejected with e.
C7_ReleasedOnEveryExit ==
  \A p \in Procs :
    (Done(p) /\ BodyRan(p))
      => /\ lockHolder # p
         /\ ~lockFd[p]
         /\ fnResult[p].status = "threw"
              => result[p] = Rejected(fnResult[p].error)

C7_Witness ==
  \E p \in Procs :
    /\ Done(p) /\ fnResult[p].status = "threw"
    /\ result[p].status = "rejected"
    /\ lockHolder = ""

ParentCheckDone(p) == pc[p] \in {"write", "commit", "unlock", "done"}
Collision == {"LockedError", "OptimisticConcurrencyError"}
Overlapping(p, q) == p # q /\ Done(p) /\ Done(q) /\ q \in overlapped[p]
TypedErrors ==
  Collision \cup {"GitRepoError: Invalid branch",
                  "GitRepoError: Given parent revision is invalid"}
InBody(p) == pc[p] \in {"checkout", "write", "commit", "unlock"}
MutualExclusion == Cardinality({p \in Procs : InBody(p)}) <= 1
C6_LockedAtOnce ==
  /\ []MutualExclusion
  /\ [][\A q \in Procs :
          (pc[q] = "acquire" /\ pc'[q] # "acquire" /\ lockHolder \notin {"", q})
            => /\ pc'[q] = "done"
               /\ result'[q].status = "rejected"
               /\ ~BodyRan(q)'
               /\ acquireErr'[q] = "EAGAIN" => result'[q].error = "LockedError"
               /\ acquireErr'[q] # ""
               /\ lockHolder' = lockHolder]_vars

C6_Witness ==
  \E p, q \in Procs :
    /\ p # q /\ InBody(p) /\ lockHolder = p
    /\ Done(q) /\ result[q] = Rejected("LockedError") /\ ~BodyRan(q)

\* C11: when HEAD has a commit and the named branch does not exist, the
\* checkout step of updateBranchFiles throws the typed InvalidBranchError and
\* leaves commits and refs as they were.
C11_InvalidBranchTyped ==
  [][\A p \in Procs :
       (/\ pc[p] = "checkout" /\ pc'[p] # "checkout"
        /\ HeadId # 0
        /\ refs[call[p].branchName] = 0)
         => /\ fnResult'[p] = Threw("InvalidBranchError")
            /\ commits' = commits
            /\ refs' = refs]_vars

\* C12: a step of the transaction that fails creates no commit and moves no
\* branch, and once the promise of a call whose body threw has settled it is
\* rejected, the call has created no commit, the lock is free and the
\* descriptor closed.
C12_FailureAborts ==
  /\ [](\A p \in Procs :
          (Done(p) /\ fnResult[p].status = "threw")
            => /\ result[p].status = "rejected"
               /\ created[p] = 0
               /\ lockHolder # p
               /\ ~lockFd[p])
  /\ [][\A p \in Procs :
          (fnResult[p].status # "threw" /\ fnResult'[p].status = "threw")
            => /\ commits' = commits
               /\ refs' = refs]_vars

C12_Witness ==
  \E p \in Procs :
    /\ Done(p) /\ fnResult[p] = Threw("ENOENT")
    /\ result[p] = Rejected("ENOENT")
    /\ wt # HeadTree
    /\ lockHolder = "" /\ ~lockFd[p]

\* C18: getFile(b, q) fails with InvalidBranchError when branch b does not
\* exist and with FileNotFound when b exists and its tree has no entry at q;
\* when it succeeds the hash it returns is the head of b.
C18_GetFileErrors ==
  \A b \in Branches, q \in Paths :
    LET r == getFile(b, q) IN
    /\ refs[b] = 0 => (~r.ok /\ r.error = "InvalidBranchError")
    /\ (refs[b] # 0 /\ TreeOf(refs[b])[q] = Absent)
         => (~r.ok /\ r.error = "FileNotFound")
    /\ r.ok => r.chksum = tostrS(refs[b])

\* C19: getFile on a blob larger than 1 MiB fails with a typed repository
\* error (a GitRepoError) and returns no content; a blob of at most 1 MiB is
\* returned.
RepoErrors ==
  {"GitRepoError", "FileNotFound", "InvalidBranchError",
   "OptimisticConcurrencyError"}
C19_BigBlobTypedError ==
  \A b \in Branches, q \in Paths :
    LET r == getFile(b, q)
        c == TreeOf(refs[b])[q] IN
    (refs[b] # 0 /\ c # Absent) =>
      IF rawsize(c) > 1024 * 1024
      THEN ~r.ok /\ r.content = Absent /\ r.error \in RepoErrors
      ELSE r.ok /\ r.content = c

\* C13: a git-receive-pack request whose child accepted the update of
\* refs/heads/X from A to B has, once it is over, emitted exactly one 'push'
\* event, whose change list is [{type: head, ref: X, before: A, after: B}].
UpdateAccepted(r) == accepted[r] # NoUpdate
C13_OnePushEventPerUpdate ==
  \A r \in Reqs :
    (httpStage[r] = "done" /\ UpdateAccepted(r)) =>
      emitted[r] = << <<[type |-> "head", ref |-> accepted[r].ref,
                         before |-> accepted[r].before,
                         after |-> accepted[r].after]>> >>

\* C14: a git-receive-pack request whose child exited with a non-zero
\* status, or whose push was not accepted, has emitted no 'push' event.
C14_NoEventOnFailure ==
  \A r \in Reqs :
    (/\ httpStage[r] = "done" /\ spawned[r] /\ saveOutput(httpReq[r])
     /\ (exitCode[r] # 0 \/ ~UpdateAccepted(r)))
      => emitted[r] = <<>>

\* C15: a request from outside the private-network rule gets a Git helper
\* spawned only with Basic credentials of user 'git' and the repository's
\* access key; in every other case it is answered 401 and nothing is spawned.
PrivateAddress(a) ==
  a[1] \in {10, 127} \/ (a[1] = 172 /\ 16 <= a[2] /\ a[2] <= 31)
    \/ (a[1] = 192 /\ a[2] = 168)
ByIpRule(r) == ~authOnPrivateNetworks /\ PrivateAddress(httpReq[r].addr)
ValidBasic(r) ==
  /\ httpReq[r].repo = "test-repo.git"
  /\ accessKey # ""
  /\ httpReq[r].creds = Basic("git", accessKey)
PastAuth(r) == httpStage[r] \notin {"idle", "auth"}
C15_BasicOr401 ==
  \A r \in Reqs :
    (PastAuth(r) /\ ~ByIpRule(r)) =>
      IF ValidBasic(r)
      THEN httpStatus[r] # 401
      ELSE httpStatus[r] = 401 /\ ~spawned[r]

\* C16: a request gets past authentication without valid Basic credentials
\* only if its remote address is in one of the four private ranges and
\* authOnPrivateNetworks is disabled; with authOnPrivateNetworks enabled
\* every request past authentication carries valid Basic credentials.
Admitted(r) == PastAuth(r) /\ httpStatus[r] \notin {401, 500}
C16_PasswordlessOnlyPrivate ==
  \A r \in Reqs :
    /\ (Admitted(r) /\ ~ValidBasic(r))
         => (PrivateAddress(httpReq[r].addr) /\ ~authOnPrivateNetworks)
    /\ (Admitted(r) /\ authOnPrivateNetworks) => ValidBasic(r)
    /\ spawned[r] => Admitted(r)

C16_Witness ==
  \E r \in Reqs :
    /\ spawned[r] /\ httpReq[r].creds = NoCreds
    /\ httpReq[r].addr = <<172, 31>>
    /\ ~authOnPrivateNetworks

\* C17: an authenticated request whose service is neither git-upload-pack
\* nor git-receive-pack is answered 400, and a POST for one of the two whose
\* Content-Type is not application/x-<service>-request is answered 415; in
\* both cases no Git helper is spawned and no push event is emitted.
KnownService(r) == httpReq[r].service \in {"git-upload-pack", "git-receive-pack"}
RightContentType(r) ==
  \/ /\ httpReq[r].service = "git-upload-pack"
     /\ httpReq[r].contentType = "application/x-git-upload-pack-request"
  \/ /\ httpReq[r].service = "git-receive-pack"
     /\ httpReq[r].contentType = "application/x-git-receive-pack-request"
Handled(r) == Admitted(r) /\ httpStage[r] # "handler"
C17_BadServiceOrType ==
  \A r \in Reqs :
    Handled(r) =>
      /\ ~KnownService(r)
           => httpStatus[r] = 400 /\ ~spawned[r] /\ emitted[r] = <<>>
      /\ (KnownService(r) /\ httpReq[r].method = "POST" /\ ~RightContentType(r))
           => httpStatus[r] = 415 /\ ~spawned[r] /\ emitted[r] = <<>>
      /\ (KnownService(r)
            /\ (httpReq[r].method = "GET" \/ RightContentType(r)))
           => httpStatus[r] = 200 /\ spawned[r]

C17_Witness ==
  \E r \in Reqs :
    /\ httpStage[r] = "done" /\ httpStatus[r] = 415
    /\ httpReq[r].service = "git-receive-pack"
    /\ httpReq[r].contentType = "application/x-git-upload-pack-request"

\* C20: after a PATCH of the files of environment E succeeded, and with no
\* other write to its branch, GET of a written path of E answers 200 with the
\* written content and the ETag of the PATCH response.
C20_PatchThenGet ==
  \A p \in Procs, e \in Envs :
    (/\ Done(p) /\ ~disturbed[p]
     /\ call[p].branchName = envBranch(e)
     /\ patchResponse(result[p]).status = 204)
      => \A q \in DOMAIN call[p].files :
           LET g == downloadFile(e, q) IN
           /\ g.status = 200
           /\ g.body = call[p].files[q]
           /\ g.etag = patchResponse(result[p]).etag

\* the requests that go through _getRepo
ThroughGetRepo ==
  {"getOne", "getEnv", "upsertEnv", "download", "getAccessKey"}

\* C21: a REST operation on a producer whose repository does not exist is
\* answered 404 (the request itself being well-formed).
C21_MissingProducer404 ==
  \A p \in Procs :
    (/\ restStage[p] = "done"
     /\ restReq[p].op \in ThroughGetRepo
     /\ ~inputError(restReq[p])
     /\ TheProducer \notin repoDirs)
      => restResp[p].status = 404

\* C22: a PATCH whose body is empty or holds a file that fails validation
\* never starts a transaction or holds the lock, and the steps that serve it
\* create no repository, change no file, ref, commit or configuration and
\* end in the response 400.
BadPatch(p) ==
  /\ restStage[p] # "idle"
  /\ restReq[p].op = "patch"
  /\ \/ DOMAIN restReq[p].files = {}
     \/ \E q \in DOMAIN restReq[p].files :
          Basename(q) = "project.json" /\ ~validProject(restReq[p].files[q])

C22_ValidationBeforeTransaction ==
  [][\A p \in Procs :
       BadPatch(p) =>
         /\ pc'[p] = "idle" /\ lockHolder' # p
         /\ restStage'[p] # restStage[p] =>
              /\ UNCHANGED <<repoDirs, repoVars, lockVars, accessKey>>
              /\ restStage'[p] \in {"done", "idle"}
              /\ restStage'[p] = "done" => restResp'[p].status = 400]_vars

C22_Witness ==
  \E p \in Procs :
    /\ BadPatch(p)
    /\ restReq[p].files = [q \in {"d/project.json"} |-> 1]
    /\ restStage[p] = "done"
    /\ restResp[p].status = 400
    /\ TheProducer \notin repoDirs

\* C27: createRepo(name) returns the repository of that name and path, the
\* directory exists afterwards, and on a repository that existed it changes
\* no commit, branch, file or configuration.
C27_CreateRepoIdempotent ==
  [][\A p \in Procs :
       (restStage[p] = "manager" /\ restStage'[p] = "done") =>
         /\ restResp'[p].value = repoPath(TheProducer)
         /\ repoName(restResp'[p].value) = TheProducer
         /\ TheProducer \in repoDirs'
         /\ TheProducer \in repoDirs =>
              UNCHANGED <<repoDirs, repoVars, accessKey>>]_vars

C27_Witness ==
  \E p \in Procs :
    /\ restStage[p] = "done"
    /\ restReq[p].op = "createRepo"
    /\ refs[envBranch("dev")] # 0

\* C28: upsertBranch(name, revspec) with a revspec that names a commit (its
\* hash in either case, or a branch that has one) leaves name at that commit
\* and returns its hash, whether name existed or not, and moves no other
\* branch; with a revspec that names no commit it fails with RevisionNotFound
\* (400 at the REST surface) and no branch is created or moved.
NamedCommit(spec) ==
  IF spec.form \in {"hex", "HEX"} THEN spec.id
  ELSE IF spec.form = "branch" /\ spec.name \in Branches THEN refs[spec.name]
  ELSE 0

PushStep == commits' # commits /\ \A p \in Procs : created'[p] = created[p]

C29_PushTakesNoLock ==
  [][/\ PushStep => UNCHANGED lockVars
     /\ \A p \in Procs :
          /\ acquireErr'[p] # "EAGAIN"
          /\ (pc[p] = "commit" /\ fnResult'[p].status = "threw")
               => fnResult'[p].error = "OptimisticConcurrencyError"]_vars

\* C30: a commit created by updateBranchFiles has no parent when HEAD was
\* unborn and otherwise the one parent that the transaction read as head
\* commit; that parent is the tip the branch has at that moment and the
\* branch moves to the new commit, so the writes to a branch extend one chain.
C30_ParentIsHeadCommit ==
  [][\A p \in Procs :
       (created'[p] # created[p] /\ created'[p] # 0) =>
         LET c == commits'[created'[p]] IN
         /\ c.parents = IF initialCommit[p] THEN <<>> ELSE <<headCommit[p]>>
         /\ c.parents = IF refs[head] = 0 THEN <<>> ELSE <<refs[head]>>
         /\ refs'[head] = created'[p]
         /\ head = call[p].branchName]_vars

C30_Witness ==
  \E p \in Procs :
    /\ created[p] = 2
    /\ commits[2].parents = <<1>>
    /\ refs[call[p].branchName] = 2

\* C23: the first event a subscriber's stream holds is the {initial}
\* snapshot: no push and no keepalive event is written before it
C23_InitialFirst ==
  \A s \in Subs :
    subQueue[s] # <<>> => subQueue[s][1].type = "initial"

pushesOf(queue) == SelectSeq(queue, LAMBDA e : e.type = "push")

\* C25: a stream holds push events of the repository directory
\* "{producerId}.git" only, and one for every push event emitted for that
\* directory while the subscription was registered
C25_OwnRepositoryOnly ==
  \A s \in Subs :
    /\ \A i \in 1..Len(subQueue[s]) :
         subQueue[s][i].type = "push" =>
           subQueue[s][i].repo = subProducer[s] \o ".git"
    /\ Len(pushesOf(subQueue[s])) = Len(heard[s])

C25_Witness ==
  \E s \in Subs, r \in Reqs :
    /\ Len(heard[s]) = 1
    /\ listening[s]
    /\ httpStage[r] = "done"
    /\ emitted[r] # <<>>
    /\ httpReq[r].repo # subProducer[s] \o ".git"

\* C26: the push events of a stream are those emitted for the subscriber, in
\* the order of emission, each of them once
C26_PushOrder ==
  \A s \in Subs :
    \A i \in 1..Len(pushesOf(subQueue[s])) :
      /\ i <= Len(heard[s])
      /\ pushesOf(subQueue[s])[i].changes = heard[s][i]

C26_Witness ==
  \E s \in Subs :
    /\ Len(heard[s]) = 2
    /\ heard[s][1] # heard[s][2]
    /\ heard[s][1] # <<>>
    /\ subStage[s] = "open"

\* C33: the write step of updateBranchFiles succeeds for every path of the
\* file map, nested ones whose directory is missing included, and leaves
\* every file of the map in the working tree
C33_NestedDirsCreated ==
  [][\A p \in Procs :
       (pc[p] = "write" /\ pc'[p] # "write") =>
         /\ pc'[p] = "commit"
         /\ \A q \in DOMAIN call[p].files : wt'[q] = call[p].files[q]]_vars

\* a step of the call of p
StepOf(p) == pc'[p] # pc[p]

\* C36: while HEAD has a commit, no step of updateBranchFiles adds or
\* removes a branch, and none moves a branch other than the one it names
C36_OtherBranchesUntouched ==
  [][\A p \in Procs :
       (StepOf(p) /\ HeadId # 0) =>
         \A b \in Branches :
           /\ (refs'[b] = 0) = (refs[b] = 0)
           /\ b # call[p].branchName => refs'[b] = refs[b]]_vars

C36_Witness ==
  \E p \in Procs :
    /\ created[p] # 0
    /\ commits[created[p]].parents # <<>>
    /\ call[p].branchName = "env/dev"
    /\ refs["master"] # 0
    /\ refs["master"] # refs["env/dev"]

\* the tree of the first parent of commit c, empty for a root commit
ParentTree(c) ==
  IF c.parents = <<>> THEN EmptyTree ELSE TreeOf(c.parents[1])

\* C37: the tree of a commit created by updateBranchFiles differs from the
\* tree of its parent at paths of the file map only
C37_OnlyGivenPaths ==
  [][\A p \in Procs :
       (created'[p] # created[p] /\ created'[p] # 0) =>
         LET c == commits'[created'[p]] IN
         \A q \in Paths \ DOMAIN call[p].files :
           c.tree[q] = ParentTree(c)[q]]_vars

\* C35: when the exit handler of a git-receive-pack child has ended the tee
\* and run the callback, the tee has transformed everything the child wrote
\* to stdout
C35_OutputBeforeExit ==
  \A r \in Reqs :
    (httpStage[r] = "done" /\ spawned[r] /\ saveOutput(httpReq[r])) =>
      teeSeen[r] = Len(childOut[r])

\* subscriptions whose setup is under way or done and whose request has not
\* closed
OpenSubscriptions ==
  {s \in Subs : subStage[s] \in {"getRepo", "snapshot", "open"}
                  /\ closedAt[s] = -1}

\* C38: the 'push' listeners registered by repoEventStream, and the running
\* keep-alive timers, are as many as the open subscriptions; a subscription
\* that closed or whose setup failed has neither
C38_ListenersAreOpenSubscriptions ==
  /\ Cardinality({s \in Subs : listening[s]}) = Cardinality(OpenSubscriptions)
  /\ Cardinality({s \in Subs : keepAlive[s]}) = Cardinality(OpenSubscriptions)
  /\ \A s \in Subs \ OpenSubscriptions : ~listening[s] /\ ~keepAlive[s]

\* C39: when regenerateAccessKey answers with key k, lunchbadger.accesskey
\* of the repository is k
C39_KeyWrittenBeforeResponse ==
  [][\A p \in Procs :
       (/\ restReq[p].op = "regenerate"
        /\ restStage[p] # "done" /\ restStage'[p] = "done"
        /\ restResp'[p].status = 200)
         => accessKey' = restResp'[p].value]_vars

\* C40: createRepo and create calls for a new producer that run at the same
\* time all succeed, and between them the repository is initialized once and
\* configured once
C40_OverlappingCreateRepo ==
  /\ \A p \in Procs :
       (restStage[p] = "done" /\ restReq[p].op \in {"create", "createRepo"})
         => restResp[p].status = 200
  /\ Cardinality({p \in Procs : "init" \in did[p]}) <= 1
  /\ Cardinality({p \in Procs : "configure" \in did[p]}) <= 1

\* what feed() gives when the whole stream comes as one chunk
Unsplit == feed(NewParser, stream)

\* C34: once the whole stream has been fed, the events emitted are those of
\* the stream fed as one chunk, however it was cut, and every packet event
\* carries length - 4 characters
C34_SplitIndependent ==
  /\ feedIn = <<>> => events = Unsplit.events
  /\ \A i \in 1..Len(events) :
       events[i].type = "packet" => Len(events[i].data) = events[i].len - 4

\* a length prefix that is not four hex digits, or whose value is 4 or less,
\* the flush packet apart
BadPrefix(strLen) ==
  /\ strLen # <<"0", "0", "0", "0">>
  /\ \/ Len(strLen) # 4
     \/ \E i \in 1..4 : strLen[i] \notin HexDigits
     \/ parseInt(strLen) <= 4

\* the chunk a step passes to the tee
ChunkOf(before, after) == SubSeq(before, 1, Len(before) - Len(after))

RECURSIVE changesOf(_)
changesOf(toks) ==
  IF toks = <<>> THEN <<>>
  ELSE LET t == Head(toks) IN
       IF t.kind = "line" /\ t.ns \in {"heads", "tags"}
       THEN <<[type |-> IF t.ns = "heads" THEN "head" ELSE "tag",
               ref |-> t.name, before |-> t.before, after |-> t.after]>>
              \o changesOf(Tail(toks))
       ELSE changesOf(Tail(toks))

RECURSIVE payloadsAfterFirst(_)
payloadsAfterFirst(pkts) ==
  IF Len(pkts) <= 1 THEN <<>>
  ELSE payloadsAfterFirst(SubSeq(pkts, 1, Len(pkts) - 1)) \o pkts[Len(pkts)]

\* C32: the callback of a receive-pack response ends with one change for
\* every heads or tags line of the packets after the first, in line order,
\* and nothing for any other line
C32_ChangeList ==
  pushOut.ran =>
    /\ ~pushOut.threw
    /\ pushOut.changes = changesOf(payloadsAfterFirst(reportIn))
====
